---- MODULE Spec2Model ----
(***************************************************************************)
(* A model of ced, a command-driven csv editor.                            *)
(*                                                                         *)
(*  - The table (VirtualData: columns, rows, limiters) of                  *)
(*    src/src/virtual_data.rs and src/src/value.rs: specification          *)
(*    SpecTable for the columns and rows, SpecCells for the cells and      *)
(*    the limiters, SpecMove for move_row and move_column, SpecLimiter     *)
(*    for the setters of a ValueLimiter.                                   *)
(*  - The text form of the table (to_string) and the file it is written    *)
(*    to and imported from (src/src/processor.rs): specification SpecFile. *)
(*  - The cursor based CommandHistory of src/src/command.rs (index,        *)
(*    newest_snapshot, memento_history, history_capacity): specification   *)
(*    SpecHistory.                                                         *)
(*  - The command loop of src/src/cli/command_loop.rs and                  *)
(*    src/src/cli/command.rs with its memento_history / redo_history       *)
(*    stacks: specification SpecLoop.                                      *)
(*  - The pages and the cursor of the Processor (src/src/processor.rs),    *)
(*    its commands and scripts (src/src/command.rs) and feed_execute of    *)
(*    src/src/cli/command_loop.rs: specification SpecPages.                *)
(***************************************************************************)
EXTENDS Integers, Sequences, FiniteSets, TLC

(***************************************************************************)
(* Bounds of the model.                                                    *)
(***************************************************************************)
MaxCols == 2

MaxRows == 2

MaxTableRows == 1

MaxCellRows == 1

MaxLen == 2

MaxMove == 4

MaxFileRows == 2

(***************************************************************************)
(* The state.  SpecTable and SpecCells: vdata, outcome, lasterr, lastop.   *)
(* SpecHistory: hist,                                                      *)
(* hpage, hnext, hcall, hret, hrun, abandoned, scn.  SpecLimiter: staged.  *)
(* SpecFile: file and the variables of SpecTable.                          *)
(* SpecPages: processor, pcall and lchecks.  SpecLoop: the rest.           *)
(* Each is described where its specification is defined.                   *)
(***************************************************************************)
VARIABLES vdata, outcome, lasterr, lastop,
          hist, hpage, hnext, hcall, hret, hrun, abandoned, scn,
          processor_data, loop_history, lstatus, lchecks, lcmd, lres, ncmds,
          lrun, lundos, lredos, ltip,
          staged, file,
          processor, pcall

tvars == << vdata, outcome, lasterr, lastop >>

hvars == << hist, hpage, hnext, hcall, hret, hrun, abandoned, scn >>

lvars == << processor_data, loop_history, lstatus, lchecks, lcmd, lres, ncmds,
            lrun, lundos, lredos, ltip >>

svars == << staged, file >>

pvars == << processor, pcall >>

vars == << tvars, hvars, lvars, svars, pvars >>

(***************************************************************************)
(* Option<T>: None is the empty sequence, Some(x) the one element sequence.*)
(***************************************************************************)
None == << >>

Some(x) == << x >>

IsSome(o) == Len(o) = 1

Unwrap(o) == o[1]

(***************************************************************************)
(* Strings the commands and operations are fed with, and what Rust's       *)
(* str::parse makes of them.                                               *)
(***************************************************************************)
Names == {"a", "b", "3"}

Tokens == {"a", "b", "0", "1", "3"}

\* str::parse::<usize>: the decimal numerals of the token universe.
ParsesUsize(s) == s \in {"0", "1", "2", "3"}

UsizeOf(s) == CASE s = "0" -> 0 [] s = "1" -> 1 [] s = "2" -> 2 [] s = "3" -> 3

\* str::parse::<isize>: the signed numerals.
ParsesIsize(s) == ParsesUsize(s) \/ s = "-1"

IsizeOf(s) == IF s = "-1" THEN -1 ELSE UsizeOf(s)

(***************************************************************************)
(* Value and ValueType (src/src/value.rs).                                 *)
(***************************************************************************)
ValueType == {"Number", "Text"}

Number(n) == [tag |-> "Number", num |-> n, txt |-> ""]

Text(s) == [tag |-> "Text", num |-> 0, txt |-> s]

Value_get_type(v) == v.tag

\* Value::from_str: Text always succeeds, Number needs an integer.
Value_from_str(src, value_type) ==
    IF value_type = "Number"
    THEN IF ParsesIsize(src) THEN Some(Number(IsizeOf(src))) ELSE None
    ELSE Some(Text(src))

\* Display for Value: the numeral or the text.
NumeralOf(n) ==
    CASE n = 0 -> "0" [] n = 1 -> "1" [] n = 2 -> "2" [] n = 3 -> "3"
      [] n = -1 -> "-1" [] OTHER -> "?"

Value_to_string(v) == IF v.tag = "Number" THEN NumeralOf(v.num) ELSE v.txt

\* Regex::is_match for the patterns of the model.
Patterns == {"^[0-9]+$", "^$"}

is_match(pattern, text) ==
    CASE pattern = "^[0-9]+$" -> ParsesUsize(text)
      [] pattern = "^$" -> text = ""
      [] OTHER -> FALSE

\* impl Default for ValueType
ValueType_default == "Text"

\* #[derive(Default)] for ValueLimiter
ValueLimiter_default ==
    [value_type |-> ValueType_default, default |-> None, variant |-> None, pattern |-> None]

SeqContains(seq, x) == \E i \in 1..Len(seq) : seq[i] = x

\* qualify that asks the pattern before the variants.
qualify_pattern_first(limiter, value) ==
    IF limiter.value_type # Value_get_type(value) THEN FALSE
    ELSE IF IsSome(limiter.pattern)
         THEN is_match(Unwrap(limiter.pattern), Value_to_string(value))
    ELSE IF IsSome(limiter.variant) THEN SeqContains(Unwrap(limiter.variant), value)
    ELSE TRUE

qualify(limiter, value) ==
    IF limiter.value_type # Value_get_type(value) THEN FALSE
    ELSE IF IsSome(limiter.variant) THEN SeqContains(Unwrap(limiter.variant), value)
    ELSE IF IsSome(limiter.pattern)
         THEN is_match(Unwrap(limiter.pattern), Value_to_string(value))
    ELSE TRUE

\* ValueLimiter::from_line: a stub that returns the default limiter.
ValueLimiter_from_line(flags) == ValueLimiter_default

ValueLimiter_get_type(limiter) == limiter.value_type

ValueLimiter_set_type(limiter, column_type) == [limiter EXCEPT !.value_type = column_type]

\* set_variant and set_pattern return the error, "" for Ok(()), and the
\* limiter as the call leaves it.
ValueLimiter_set_variant_writes_first(limiter, default, variants) ==
    [err |-> IF ~SeqContains(variants, default) THEN "InvalidLimiter" ELSE "",
     limiter |-> [limiter EXCEPT !.default = Some(default), !.variant = Some(variants)]]

ValueLimiter_set_variant(limiter, default, variants) ==
    IF ~SeqContains(variants, default)
    THEN [err |-> "InvalidLimiter", limiter |-> limiter]
    ELSE [err |-> "",
          limiter |-> [limiter EXCEPT !.default = Some(default),
                                      !.variant = Some(variants)]]

ValueLimiter_set_pattern(limiter, default, pattern) ==
    IF ~is_match(pattern, Value_to_string(default))
    THEN [err |-> "InvalidLimiter", limiter |-> limiter]
    ELSE [err |-> "",
          limiter |-> [limiter EXCEPT !.default = Some(default),
                                      !.pattern = Some(pattern)]]

\* The values written to cells and the limiters installed on columns: the
\* default one, one of type Number, one with variants, one with a pattern,
\* one on which set_variant and then set_pattern were called, and one of
\* type Number with a pattern.
Values == {Text(""), Text("0"), Number(0)}

OnlyEmpty == ValueLimiter_set_variant(ValueLimiter_default, Text(""), << Text("") >>).limiter

Limiters ==
    {ValueLimiter_default,
     ValueLimiter_set_type(ValueLimiter_default, "Number"),
     OnlyEmpty,
     ValueLimiter_set_pattern(ValueLimiter_default, Text("0"), "^[0-9]+$").limiter,
     ValueLimiter_set_pattern(OnlyEmpty, Text("0"), "^[0-9]+$").limiter,
     ValueLimiter_set_pattern(ValueLimiter_set_type(ValueLimiter_default, "Number"),
                              Number(0), "^[0-9]+$").limiter}

(***************************************************************************)
(* Column (src/src/virtual_data.rs).                                       *)
(***************************************************************************)
Column_new(name, column_type, limiter) ==
    [name |-> name,
     column_type |-> column_type,
     limiter |-> IF IsSome(limiter) THEN Unwrap(limiter) ELSE ValueLimiter_default]

\* Returns the column renamed; the previous name is col.name.
Column_rename(col, new_name) == [col EXCEPT !.name = new_name]

Column_set_limiter(col, limiter) ==
    [col EXCEPT !.column_type = ValueLimiter_get_type(limiter), !.limiter = limiter]

get_default_value_variant_first(col) ==
    IF IsSome(col.limiter.variant) /\ Len(Unwrap(col.limiter.variant)) # 0
    THEN Unwrap(col.limiter.variant)[1]
    ELSE IF IsSome(col.limiter.default) THEN Unwrap(col.limiter.default)
    ELSE IF col.column_type = "Number" THEN Number(0) ELSE Text("")

get_default_value(col) ==
    IF IsSome(col.limiter.default) THEN Unwrap(col.limiter.default)
    ELSE IF IsSome(col.limiter.variant) /\ Len(Unwrap(col.limiter.variant)) # 0
         THEN Unwrap(col.limiter.variant)[1]
    ELSE IF col.column_type = "Number" THEN Number(0) ELSE Text("")

(***************************************************************************)
(* Row: HashMap<String, Value>, a function from its keys to values.        *)
(***************************************************************************)
Row_new == [k \in {} |-> Text("")]

Row_insert_value(row, key, value) ==
    [k \in DOMAIN row \cup {key} |-> IF k = key THEN value ELSE row[k]]

Row_remove_value(row, key) == [k \in DOMAIN row \ {key} |-> row[k]]

Row_rename_column(row, name, new_name) ==
    IF name \in DOMAIN row
    THEN Row_insert_value(Row_remove_value(row, name), new_name, row[name])
    ELSE row

(***************************************************************************)
(* Sequence helpers: Vec::insert, Vec::remove.                             *)
(***************************************************************************)
VecInsert(s, i, x) == SubSeq(s, 1, i) \o << x >> \o SubSeq(s, i + 1, Len(s))

VecRemove(s, i) == SubSeq(s, 1, i) \o SubSeq(s, i + 2, Len(s))

(***************************************************************************)
(* Results of the table operations: Ok, Err(kind), or a panic (an index    *)
(* out of bounds or an unwrap of None aborts the process).                 *)
(***************************************************************************)
Ok(vd) == [kind |-> "Ok", err |-> "", vd |-> vd]

Err(e, vd) == [kind |-> "Err", err |-> e, vd |-> vd]

Panic(vd) == [kind |-> "Panic", err |-> "panic", vd |-> vd]

(***************************************************************************)
(* VirtualData (src/src/virtual_data.rs).  Indices are 0-based as in the   *)
(* source; sequences are 1-based.                                          *)
(***************************************************************************)
VirtualData_new == [columns |-> << >>, rows |-> << >>]

get_row_count(vd) == Len(vd.rows)

get_column_count(vd) == Len(vd.columns)

ColumnPosition(vd, src) ==
    IF \E i \in 1..Len(vd.columns) : vd.columns[i].name = src
    THEN Some((CHOOSE i \in 1..Len(vd.columns) :
                  /\ vd.columns[i].name = src
                  /\ \A j \in 1..(i - 1) : vd.columns[j].name # src) - 1)
    ELSE None

try_get_column_index(vd, src) ==
    IF ParsesUsize(src) THEN Some(UsizeOf(src)) ELSE ColumnPosition(vd, src)

is_valid_cell_coordinate(vd, x, y) == x < get_row_count(vd) /\ y < get_column_count(vd)

rename_column(vd, column, new_name) ==
    LET column_index == try_get_column_index(vd, column) IN
    IF ~IsSome(column_index) THEN Err("OutOfRangeError", vd)
    ELSE LET i == Unwrap(column_index) IN
         IF i >= Len(vd.columns) THEN Panic(vd)
         ELSE LET previous == vd.columns[i + 1].name IN
              Ok([columns |-> [vd.columns EXCEPT ![i + 1] = Column_rename(@, new_name)],
                  rows |-> [r \in 1..Len(vd.rows) |->
                               Row_rename_column(vd.rows[r], previous, new_name)]])

insert_row(vd, row, source) ==
    IF IsSome(source) /\ Len(Unwrap(source)) # get_column_count(vd)
    THEN Err("InvalidRowData", vd)
    ELSE IF row > Len(vd.rows) THEN Panic(vd)
    ELSE LET names == {vd.columns[i].name : i \in 1..Len(vd.columns)}
             \* a later column of the same name overwrites the earlier value
             last(n) == CHOOSE i \in 1..Len(vd.columns) :
                           /\ vd.columns[i].name = n
                           /\ \A j \in (i + 1)..Len(vd.columns) : vd.columns[j].name # n
             new_row == [n \in names |->
                            IF IsSome(source) THEN Unwrap(source)[last(n)]
                            ELSE get_default_value(vd.columns[last(n)])]
         IN Ok([vd EXCEPT !.rows = VecInsert(vd.rows, row, new_row)])

delete_row(vd, row) ==
    LET row_count == get_row_count(vd) IN
    IF row_count = 0 \/ row_count < row THEN Err("None", vd)
    ELSE IF row >= row_count THEN Panic(vd)
    ELSE Ok([vd EXCEPT !.rows = VecRemove(vd.rows, row)])

\* insert_column that looks the name up among the columns only and does not
\* test whether it is a numeral.
insert_column_names_only(vd, column, column_name, column_type, limiter) ==
    IF IsSome(ColumnPosition(vd, column_name)) THEN Err("InvalidColumn", vd)
    ELSE IF column > Len(vd.columns) THEN Panic(vd)
    ELSE LET new_column == Column_new(column_name, column_type, limiter)
             default_value == get_default_value(new_column)
         IN Ok([columns |-> VecInsert(vd.columns, column, new_column),
                rows |-> [r \in 1..Len(vd.rows) |->
                             Row_insert_value(vd.rows[r], column_name, default_value)]])

insert_column(vd, column, column_name, column_type, limiter) ==
    IF IsSome(try_get_column_index(vd, column_name)) THEN Err("InvalidColumn", vd)
    ELSE IF ParsesIsize(column_name) THEN Err("InvalidColumn", vd)
    ELSE IF column > Len(vd.columns) THEN Panic(vd)
    ELSE LET new_column == Column_new(column_name, column_type, limiter)
             default_value == get_default_value(new_column)
         IN Ok([columns |-> VecInsert(vd.columns, column, new_column),
                rows |-> [r \in 1..Len(vd.rows) |->
                             Row_insert_value(vd.rows[r], column_name, default_value)]])

delete_column(vd, column) ==
    IF ~is_valid_cell_coordinate(vd, 0, column) THEN Err("OutOfRangeError", vd)
    ELSE LET name == vd.columns[column + 1].name
             columns == VecRemove(vd.columns, column)
         IN Ok([columns |-> columns,
                rows |-> IF Len(columns) = 0 THEN << >>
                         ELSE [r \in 1..Len(vd.rows) |-> Row_remove_value(vd.rows[r], name)]])

set_limiter(vd, column, limiter) ==
    IF column >= Len(vd.columns) THEN Panic(vd)
    ELSE Ok([vd EXCEPT !.columns[column + 1] = Column_set_limiter(@, limiter)])

\* Page::insert_column_with_type hands its arguments to the table, whose
\* insert_column has no use for placeholder.
Page_insert_column_with_type(vd, column_index, column_name, column_type, limiter, placeholder) ==
    insert_column(vd, column_index, column_name, column_type, limiter)

\* Page::set_limiter hands column, limiter and panic to the table, whose
\* set_limiter has no use for panic.
Page_set_limiter(vd, column, limiter, panic) == set_limiter(vd, column, limiter)

\* The swaps of move_row and move_column: index walks from src to target.
SwapAt(s, i, j) == [s EXCEPT ![i + 1] = s[j + 1], ![j + 1] = s[i + 1]]

RECURSIVE SwapLeft(_, _, _)
SwapLeft(s, index, target) ==
    IF index - 1 >= target
    THEN LET swapped == SwapAt(s, index, index - 1) IN
         IF index - 1 = 0 THEN swapped ELSE SwapLeft(swapped, index - 1, target)
    ELSE s

RECURSIVE SwapRight(_, _, _)
SwapRight(s, index, target) ==
    IF index + 1 <= target
    THEN SwapRight(SwapAt(s, index, index + 1), index + 1, target)
    ELSE s

\* A move that exchanges the two ends in one swap.
MoveIn_one_swap(s, src, target) == SwapAt(s, src, target)

MoveIn(s, src, target) ==
    IF src > target THEN SwapLeft(s, src, target)
    ELSE IF src < target THEN SwapRight(s, src, target)
    ELSE s

move_row(vd, src, target) ==
    IF src >= get_row_count(vd) \/ target >= get_row_count(vd)
    THEN Err("OutOfRangeError", vd)
    ELSE Ok([vd EXCEPT !.rows = MoveIn(@, src, target)])

move_column(vd, src, target) ==
    IF src >= get_column_count(vd) \/ target >= get_column_count(vd)
    THEN Err("OutOfRangeError", vd)
    ELSE Ok([vd EXCEPT !.columns = MoveIn(@, src, target)])

\* Row::update_value unwraps the entry of the key: a missing key panics.
HasKey(row, key) == key \in DOMAIN row

Row_update_value(row, key, value) == [row EXCEPT ![key] = value]

set_column(vd, column, value) ==
    LET column_index == try_get_column_index(vd, column) IN
    IF ~IsSome(column_index) THEN Err("OutOfRangeError", vd)
    ELSE IF Unwrap(column_index) >= Len(vd.columns) THEN Panic(vd)
    ELSE LET name == vd.columns[Unwrap(column_index) + 1].name IN
         IF \E r \in 1..Len(vd.rows) : ~HasKey(vd.rows[r], name) THEN Panic(vd)
         ELSE Ok([vd EXCEPT !.rows = [r \in 1..Len(vd.rows) |->
                                         Row_update_value(vd.rows[r], name, value)]])

\* The values written one after the other, column by column.
RECURSIVE UpdateAll(_, _, _, _)
UpdateAll(row, columns, values, i) ==
    IF i > Len(columns) THEN row
    ELSE UpdateAll(Row_update_value(row, columns[i].name, values[i]), columns, values, i + 1)

\* set_row with one loop that checks a value and writes it at once: the
\* values before the first that does not qualify are written.
RECURSIVE UpdateWhileQualified(_, _, _, _)
UpdateWhileQualified(row, columns, values, i) ==
    IF i > Len(columns) \/ ~qualify(columns[i].limiter, values[i]) THEN row
    ELSE UpdateWhileQualified(Row_update_value(row, columns[i].name, values[i]),
                              columns, values, i + 1)

set_row_checks_while_writing(vd, row_number, values) ==
    IF Len(values) # get_column_count(vd) THEN Err("InsufficientRowData", vd)
    ELSE IF ~is_valid_cell_coordinate(vd, row_number, 0) THEN Err("OutOfRangeError", vd)
    ELSE IF \E i \in 1..Len(values) : ~HasKey(vd.rows[row_number + 1], vd.columns[i].name)
         THEN Panic(vd)
    ELSE LET written == [vd EXCEPT !.rows[row_number + 1] =
                                       UpdateWhileQualified(@, vd.columns, values, 1)]
         IN IF \E i \in 1..Len(values) : ~qualify(vd.columns[i].limiter, values[i])
            THEN Err("InvalidRowData", written)
            ELSE Ok(written)

set_row(vd, row_number, values) ==
    IF Len(values) # get_column_count(vd) THEN Err("InsufficientRowData", vd)
    ELSE IF ~is_valid_cell_coordinate(vd, row_number, 0) THEN Err("OutOfRangeError", vd)
    ELSE IF \E i \in 1..Len(values) : ~qualify(vd.columns[i].limiter, values[i])
         THEN Err("InvalidRowData", vd)
    ELSE IF \E i \in 1..Len(values) : ~HasKey(vd.rows[row_number + 1], vd.columns[i].name)
         THEN Panic(vd)
    ELSE Ok([vd EXCEPT !.rows[row_number + 1] = UpdateAll(@, vd.columns, values, 1)])

set_data(vd, x, y, value) ==
    IF ~is_valid_cell_coordinate(vd, x, y) THEN Err("OutOfRangeError", vd)
    ELSE LET name == vd.columns[y + 1].name IN
         IF ~qualify(vd.columns[y + 1].limiter, value) THEN Err("InvalidCellData", vd)
         ELSE IF ~HasKey(vd.rows[x + 1], name) THEN Panic(vd)
         ELSE Ok([vd EXCEPT !.rows[x + 1] = Row_update_value(@, name, value)])

set_data_from_string_unparsed(vd, x, y, value) == set_data(vd, x, y, Text(value))

set_data_from_string(vd, x, y, value) ==
    IF ~is_valid_cell_coordinate(vd, x, y) THEN Err("OutOfRangeError", vd)
    ELSE LET parsed == Value_from_str(value, vd.columns[y + 1].column_type) IN
         IF ~IsSome(parsed) THEN Err("InvalidCellData", vd)
         ELSE set_data(vd, x, y, Unwrap(parsed))

(***************************************************************************)
(* SpecTable: the operations of VirtualData applied to one table.          *)
(*   vdata      the table                                                     *)
(*   outcome the result kind of the last operation ("Ok", "Err", "Panic"); *)
(*           after a panic the process is gone and nothing more happens    *)
(*   lasterr the error of the last operation, "" when it returned Ok       *)
(*   lastop  the last operation applied                                    *)
(***************************************************************************)
TableInitWith(t) ==
    /\ vdata = t
    /\ outcome = "Ok"
    /\ lasterr = ""
    /\ lastop = "new"

Apply(op, res) ==
    /\ vdata' = IF res.kind = "Panic" THEN vdata ELSE res.vd
    /\ outcome' = res.kind
    /\ lasterr' = res.err
    /\ lastop' = op
    /\ UNCHANGED << hvars, lvars, svars, pvars >>

\* The placeholders of a new column: none, or a text.
Placeholders == {None, Some(Text("1"))}

InsertColumn ==
    \E column \in 0..MaxCols, name \in Names, column_type \in ValueType,
       placeholder \in Placeholders :
        /\ outcome # "Panic"
        /\ Len(vdata.columns) < MaxCols
        /\ Apply("insert_column",
                 Page_insert_column_with_type(vdata, column, name, column_type, None,
                                              placeholder))

DeleteColumn ==
    \E column \in 0..MaxCols :
        /\ outcome # "Panic"
        /\ Apply("delete_column", delete_column(vdata, column))

RenameColumn ==
    \E column \in Tokens, new_name \in Names :
        /\ outcome # "Panic"
        /\ Apply("rename_column", rename_column(vdata, column, new_name))

InsertRow ==
    \E row \in 0..MaxTableRows :
        /\ outcome # "Panic"
        /\ Len(vdata.rows) < MaxTableRows
        /\ Apply("insert_row", insert_row(vdata, row, None))

DeleteRow ==
    \E row \in 0..MaxRows :
        /\ outcome # "Panic"
        /\ Apply("delete_row", delete_row(vdata, row))

MoveRow ==
    \E src \in 0..Len(vdata.rows), target \in 0..Len(vdata.rows) :
        /\ outcome # "Panic"
        /\ Apply("move_row", move_row(vdata, src, target))

MoveColumn ==
    \E src \in 0..Len(vdata.columns), target \in 0..Len(vdata.columns) :
        /\ outcome # "Panic"
        /\ Apply("move_column", move_column(vdata, src, target))

TableNext ==
    \/ InsertColumn
    \/ DeleteColumn
    \/ RenameColumn
    \/ InsertRow
    \/ DeleteRow
    \/ MoveRow
    \/ MoveColumn

(***************************************************************************)
(* SpecCells: the operations that write cells and limiters, applied to a   *)
(* table of two Text columns a and b.                                      *)
(***************************************************************************)
TwoColumns ==
    [columns |-> << Column_new("a", "Text", None), Column_new("b", "Text", None) >>,
     rows |-> << >>]

\* The rows handed to set_row and insert_row: of every length up to MaxLen.
RowValues == UNION {[1..n -> Values] : n \in 1..MaxLen}

\* Row and column indices: every one of the table and the first beyond.
RowIndices == 0..MaxCellRows

ColumnIndices == 0..Len(TwoColumns.columns)

SetCell ==
    \E x \in RowIndices, y \in ColumnIndices, value \in Values :
        /\ outcome # "Panic"
        /\ Apply("set_data", set_data(vdata, x, y, value))

\* The texts typed into a cell: the empty text, which is no integer, and a numeral.
CellTexts == {"", "0"}

SetCellFromString ==
    \E x \in RowIndices, y \in ColumnIndices, value \in CellTexts :
        /\ outcome # "Panic"
        /\ Apply("set_data_from_string", set_data_from_string(vdata, x, y, value))

SetRow ==
    \E row_number \in RowIndices, values \in RowValues :
        /\ outcome # "Panic"
        /\ Apply("set_row", set_row(vdata, row_number, values))

InsertRowValues ==
    \E row \in RowIndices, source \in {None} \cup {Some(values) : values \in RowValues} :
        /\ outcome # "Panic"
        /\ Len(vdata.rows) < MaxCellRows
        /\ Apply("insert_row", insert_row(vdata, row, source))

SetColumn ==
    \E column \in Tokens, value \in Values :
        /\ outcome # "Panic"
        /\ Apply("set_column", set_column(vdata, column, value))

SetLimiter ==
    \E column \in ColumnIndices, limiter \in Limiters, panic \in BOOLEAN :
        /\ outcome # "Panic"
        /\ Apply("set_limiter", Page_set_limiter(vdata, column, limiter, panic))

CellsNext ==
    \/ SetCell
    \/ SetCellFromString
    \/ SetRow
    \/ InsertRowValues
    \/ SetColumn
    \/ SetLimiter
    \/ DeleteRow


(***************************************************************************)
(* SpecLimiter: a ValueLimiter made by ValueLimiter::default() and         *)
(* configured by its setters.                                              *)
(*   staged   the limiter                                                  *)
(*   lastop, lasterr, outcome   the last setter called and its result      *)
(***************************************************************************)
LimiterInitWith(l) == staged = l

\* The variant lists handed to set_variant.
VariantLists == UNION {[1..n -> Values] : n \in 0..MaxLen}

Configure(op, res) ==
    /\ staged' = res.limiter
    /\ lastop' = op
    /\ lasterr' = res.err
    /\ outcome' = IF res.err = "" THEN "Ok" ELSE "Err"
    /\ UNCHANGED << vdata, file, hvars, lvars, pvars >>

LimiterSetType ==
    \E column_type \in ValueType :
        Configure("set_type",
                  [err |-> "", limiter |-> ValueLimiter_set_type(staged, column_type)])

LimiterSetVariant ==
    \E default \in Values, variants \in VariantLists :
        Configure("set_variant", ValueLimiter_set_variant(staged, default, variants))

LimiterSetPattern ==
    \E default \in Values, pattern \in Patterns :
        Configure("set_pattern", ValueLimiter_set_pattern(staged, default, pattern))

LimiterNext ==
    \/ LimiterSetType
    \/ LimiterSetVariant
    \/ LimiterSetPattern

(***************************************************************************)
(* SpecFile: a page imported from a csv file, edited, written back to the  *)
(* file with overwrite_to_file and imported again.                          *)
(*   file    the content of the source file, a sequence of characters      *)
(*   vdata   the table of the page                                          *)
(*   lastop, lasterr, outcome   the last operation and its result          *)
(***************************************************************************)
\* The characters of the strings of the model and the string of a sequence
\* of characters.
Chars(str) ==
    CASE str = "" -> << >>
      [] str = "-1" -> << "-", "1" >>
      [] OTHER -> << str >>

StringOf(chars) ==
    CASE Len(chars) = 0 -> ""
      [] Len(chars) = 1 -> chars[1]
      [] chars = << "-", "1" >> -> "-1"
      [] OTHER -> "?"

\* <[String]>::join
RECURSIVE Join(_, _)
Join(parts, sep) ==
    IF Len(parts) = 0 THEN << >>
    ELSE IF Len(parts) = 1 THEN parts[1]
    ELSE parts[1] \o << sep >> \o Join(Tail(parts), sep)

\* str::split: the pieces between the separators, one more than there are
\* separators.
RECURSIVE Split(_, _)
Split(chars, sep) ==
    IF \A i \in 1..Len(chars) : chars[i] # sep THEN << chars >>
    ELSE LET at == CHOOSE i \in 1..Len(chars) :
                       chars[i] = sep /\ \A j \in 1..(i - 1) : chars[j] # sep
         IN << SubSeq(chars, 1, at - 1) >> \o Split(SubSeq(chars, at + 1, Len(chars)), sep)

\* String::pop
Pop(chars) == IF Len(chars) = 0 THEN chars ELSE SubSeq(chars, 1, Len(chars) - 1)

\* impl Display for VirtualData: to_string()
Display(vd) ==
    LET line(row) ==
            Join([i \in 1..Len(vd.columns) |->
                     Chars(Value_to_string(
                         IF HasKey(row, vd.columns[i].name) THEN row[vd.columns[i].name]
                         ELSE Text("")))], ",") \o << "\n" >>
        column_row == Join([i \in 1..Len(vd.columns) |-> Chars(vd.columns[i].name)], ",")
                          \o << "\n" >>
        RECURSIVE push_rows(_, _)
        push_rows(csv_src, r) ==
            IF r > Len(vd.rows) THEN csv_src
            ELSE push_rows(csv_src \o line(vd.rows[r]), r + 1)
    IN Pop(push_rows(column_row, 1))

\* The reader of csv text: the rows are the pieces between the line
\* delimiters, the first is the header, a blank row is skipped or, when
\* strict, an error; a row is split at the commas and must have a value for
\* every column.  The columns are Text columns without constraints.
RECURSIVE ReadRows(_, _, _, _)
ReadRows(vd, pending, r, ignore_empty_row) ==
    IF r > Len(pending) THEN Ok(vd)
    ELSE IF Len(pending[r]) = 0
         THEN IF ignore_empty_row THEN ReadRows(vd, pending, r + 1, ignore_empty_row)
              ELSE Err("InvalidRowData", vd)
    ELSE LET split == Split(pending[r], ",")
             values == [i \in 1..Len(split) |-> Text(StringOf(split[i]))]
             res == insert_row(vd, Len(vd.rows), Some(values))
         IN IF res.kind # "Ok" THEN res
            ELSE ReadRows(res.vd, pending, r + 1, ignore_empty_row)

Reader_data_from_stream(content, has_header, ignore_empty_row) ==
    LET pending == Split(content, "\n")
        names == Split(pending[1], ",")
        columns == [i \in 1..Len(names) |-> Column_new(StringOf(names[i]), "Text", None)]
    IN IF ~has_header \/ Len(pending[1]) = 0 THEN Err("InvalidColumn", VirtualData_new)
       ELSE ReadRows([columns |-> columns, rows |-> << >>], pending, 2, ignore_empty_row)

\* Processor::add_page: blank rows are skipped unless CED_READ_STRICT is true.
Processor_add_page(content, has_header, read_strict) ==
    Reader_data_from_stream(content, has_header, ~read_strict)

\* Processor::import_from_file
Processor_import_from_file(content, has_header, read_strict) ==
    Processor_add_page(content, has_header, read_strict)

\* Processor::overwrite_to_file writes to_string() of the page to its file.
Processor_overwrite_to_file(vd) == Display(vd)

FileInitWith(content) == file = content

\* The headers of the files imported first and the texts typed into rows.
Headers == {<< "a" >>, << "a", ",", "b" >>}

FileTexts == {"", "0"}

FileImport ==
    \E read_strict \in BOOLEAN :
        /\ outcome # "Panic"
        /\ Apply("import_from_file", Processor_import_from_file(file, TRUE, read_strict))

FileAddRow ==
    \E row \in 0..Len(vdata.rows), src \in [1..Len(vdata.columns) -> FileTexts] :
        /\ outcome # "Panic"
        /\ Len(vdata.rows) < MaxFileRows
        /\ Apply("add_row_from_string_array",
                 insert_row(vdata, row, Some([i \in 1..Len(src) |-> Text(src[i])])))

FileEditCell ==
    \E x \in 0..MaxFileRows, y \in 0..Len(vdata.columns), input \in FileTexts :
        /\ outcome # "Panic"
        /\ Apply("edit_cell", set_data_from_string(vdata, x, y, input))

FileOverwrite ==
    /\ outcome # "Panic"
    /\ file' = Processor_overwrite_to_file(vdata)
    /\ lastop' = "overwrite_to_file"
    /\ lasterr' = ""
    /\ outcome' = "Ok"
    /\ UNCHANGED << vdata, staged, hvars, lvars, pvars >>

FileNext ==
    \/ FileImport
    \/ FileAddRow
    \/ FileEditCell
    \/ FileOverwrite

(***************************************************************************)
(* SpecMove: move_row and move_column on a table of up to MaxMove columns  *)
(* and rows whose rows differ from one another.                            *)
(***************************************************************************)
MoveNames == << "a", "b", "c", "d", "e" >>

RowLabels == << "A", "B", "C", "D", "E" >>

LabelledRow(r, nc) ==
    [n \in {MoveNames[i] : i \in 1..nc} |->
        IF n = MoveNames[1] THEN Text(RowLabels[r]) ELSE Text(n)]

MoveTable(nc, nr) ==
    [columns |-> [i \in 1..nc |-> Column_new(MoveNames[i], "Text", None)],
     rows |-> [r \in 1..nr |-> LabelledRow(r, nc)]]

MoveNext ==
    \/ MoveRow
    \/ MoveColumn

(***************************************************************************)
(* CommandHistory with a cursor (src/src/command.rs).                      *)
(*   index             the cursor: 0 means nothing to undo                 *)
(*   newest_snapshot   Option<HistoryRecord>, the page at the tip          *)
(*   memento_history   Vec<HistoryRecord>, oldest first                    *)
(*   history_capacity  from CED_HISTORY_CAPACITY, else HISTORY_CAPACITY    *)
(* A page is opaque to the history; here it is a version number, a new one *)
(* for every edit that changes the page.                                   *)
(***************************************************************************)
HISTORY_CAPACITY == 16

HistoryRecord_new(data, command) == [data |-> data, command |-> command]

CommandHistory_new(capacity) ==
    [index |-> 0,
     newest_snapshot |-> None,
     memento_history |-> << >>,
     history_capacity |-> capacity]

is_empty(h) == Len(h.memento_history) = 0

is_newest(h) == h.index >= Len(h.memento_history)

set_current_backup(h, data) ==
    [h EXCEPT !.newest_snapshot = Some(HistoryRecord_new(data, "Undo"))]

\* Vec::rotate_left(1)
RotateLeft1(s) == IF Len(s) = 0 THEN s ELSE Tail(s) \o << Head(s) >>

\* Vec::pop
VecPop(s) == SubSeq(s, 1, Len(s) - 1)

\* drain_history that forgets the snapshot of the tip but drains nothing.
drain_history_keeps_branch(h) ==
    IF ~is_empty(h) /\ h.index < Len(h.memento_history)
    THEN [h EXCEPT !.newest_snapshot = None]
    ELSE h

drain_history(h) ==
    IF ~is_empty(h) /\ h.index < Len(h.memento_history)
    THEN [h EXCEPT !.memento_history = SubSeq(@, 1, h.index),
                   !.newest_snapshot = None]
    ELSE h

\* take_snapshot that pops without rotating: the newest record is dropped.
take_snapshot_drops_newest(h, data, command) ==
    LET d == drain_history(h)
        pushed == Append(d.memento_history, HistoryRecord_new(data, command))
    IN IF Len(pushed) > d.history_capacity
       THEN [d EXCEPT !.memento_history = VecPop(pushed)]
       ELSE [d EXCEPT !.memento_history = pushed, !.index = @ + 1]

\* take_snapshot that advances the cursor after every push.
take_snapshot_always_advances(h, data, command) ==
    LET d == drain_history(h)
        pushed == Append(d.memento_history, HistoryRecord_new(data, command))
    IN IF Len(pushed) > d.history_capacity
       THEN [d EXCEPT !.memento_history = VecPop(RotateLeft1(pushed)), !.index = @ + 1]
       ELSE [d EXCEPT !.memento_history = pushed, !.index = @ + 1]

take_snapshot(h, data, command) ==
    LET d == drain_history(h)
        pushed == Append(d.memento_history, HistoryRecord_new(data, command))
    IN IF Len(pushed) > d.history_capacity
       THEN [d EXCEPT !.memento_history = VecPop(RotateLeft1(pushed))]
       ELSE [d EXCEPT !.memento_history = pushed, !.index = @ + 1]

\* get_undo without the test of the cursor: at 0 the cursor stays (a
\* saturating decrement) and the first record is handed out.
get_undo_unguarded(h) ==
    LET target_index == IF h.index = 0 THEN 0 ELSE h.index - 1 IN
    [h |-> [h EXCEPT !.index = target_index],
     ret |-> IF target_index < Len(h.memento_history)
             THEN Some(h.memento_history[target_index + 1]) ELSE None]

\* get_redo that hands out the last record of the stack at the tip instead
\* of the page stored by set_current_backup.
get_redo_forgets_backup(h) ==
    IF h.index = Len(h.memento_history) THEN [h |-> h, ret |-> None]
    ELSE IF h.index = Len(h.memento_history) - 1
    THEN [h |-> [h EXCEPT !.index = @ + 1],
          ret |-> Some(h.memento_history[Len(h.memento_history)])]
    ELSE LET target_index == h.index + 1 IN
         [h |-> [h EXCEPT !.index = target_index],
          ret |-> IF target_index < Len(h.memento_history)
                  THEN Some(h.memento_history[target_index + 1]) ELSE None]

\* get_undo and get_redo return the history after the call and the record
\* handed to the caller.
get_undo(h) ==
    IF h.index = 0 THEN [h |-> h, ret |-> None]
    ELSE LET target_index == h.index - 1 IN
         [h |-> [h EXCEPT !.index = target_index],
          ret |-> IF target_index < Len(h.memento_history)
                  THEN Some(h.memento_history[target_index + 1]) ELSE None]

get_redo(h) ==
    IF h.index = Len(h.memento_history) THEN [h |-> h, ret |-> None]
    ELSE IF h.index = Len(h.memento_history) - 1
    THEN [h |-> [h EXCEPT !.index = @ + 1], ret |-> h.newest_snapshot]
    ELSE LET target_index == h.index + 1 IN
         [h |-> [h EXCEPT !.index = target_index],
          ret |-> IF target_index < Len(h.memento_history)
                  THEN Some(h.memento_history[target_index + 1]) ELSE None]

(***************************************************************************)
(* SpecHistory: a caller drives one CommandHistory and one live page the   *)
(* way CommandLoop does: a tracked command snapshots the page and then     *)
(* edits it, undo and redo replace the page by the record they get.        *)
(*   hist   the CommandHistory                                             *)
(*   hpage  the live page (its version)                                    *)
(*   hnext  the next unused page version                                   *)
(*   hcall  the last call made, hret the record it returned                *)
(* History variables of the checks (not state of the program):            *)
(*   hrun       the pages snapshotted by the current run of successive     *)
(*              tracked commands                                           *)
(*   abandoned  the page versions that a new edit cut off the timeline     *)
(*   scn        the undo/redo scenario under way since the page was stored *)
(*              at the tip by set_current_backup: its phase, the stored    *)
(*              page p, the number k of undos and j of redos that returned *)
(*              a record or were due one                                   *)
(***************************************************************************)
MaxCapacity == 3

MaxPages == 5

MaxRun == 4

TrackedCommands == {"EditCell"}

NoScenario == [phase |-> "none", p |-> 0, k |-> 0, j |-> 0]

HistoryInitWith(capacity) ==
    /\ hist = CommandHistory_new(capacity)
    /\ hpage = 0
    /\ hnext = 1
    /\ hcall = "new"
    /\ hret = None
    /\ hrun = << >>
    /\ abandoned = {}
    /\ scn = NoScenario

RecordData(records) == {records[i].data : i \in 1..Len(records)}

\* The versions a take_snapshot at the current cursor cuts off: the records
\* behind the page the cursor stands on, and the backup of the tip.
CutOff(h, page, newpage) ==
    IF ~is_empty(h) /\ h.index < Len(h.memento_history)
    THEN (RecordData(SubSeq(h.memento_history, h.index + 2, Len(h.memento_history)))
           \cup RecordData(h.newest_snapshot))
         \ (RecordData(SubSeq(h.memento_history, 1, h.index)) \cup {page, newpage})
    ELSE {}

\* A history tracked command: the snapshot, then the edit (which changes the
\* page, or fails and leaves it as it is).
HTracked ==
    \E command \in TrackedCommands, changed \in BOOLEAN :
        /\ Len(hrun) < MaxRun
        /\ changed => hnext < MaxPages
        /\ hist' = take_snapshot(hist, hpage, command)
        /\ hpage' = IF changed THEN hnext ELSE hpage
        /\ hnext' = IF changed THEN hnext + 1 ELSE hnext
        /\ hcall' = "take_snapshot"
        /\ hret' = None
        /\ hrun' = Append(hrun, hpage)
        /\ abandoned' = abandoned \cup CutOff(hist, hpage, hpage')
        /\ scn' = NoScenario
        /\ UNCHANGED << tvars, lvars, svars, pvars >>

HSetCurrentBackup ==
    /\ hist' = set_current_backup(hist, hpage)
    /\ hcall' = "set_current_backup"
    /\ hret' = None
    /\ scn' = IF is_newest(hist) /\ ~is_empty(hist)
              THEN [phase |-> "undo", p |-> hpage, k |-> 0, j |-> 0]
              ELSE NoScenario
    /\ UNCHANGED << hpage, hnext, hrun, abandoned >>
    /\ UNCHANGED << tvars, lvars, svars, pvars >>

HUndo ==
    LET r == get_undo(hist) IN
    /\ hist' = r.h
    /\ hpage' = IF IsSome(r.ret) THEN Unwrap(r.ret).data ELSE hpage
    /\ hcall' = "get_undo"
    /\ hret' = r.ret
    /\ hrun' = << >>
    /\ scn' = IF scn.phase = "undo" /\ hist.index > 0
              THEN [scn EXCEPT !.k = @ + 1] ELSE NoScenario
    /\ UNCHANGED << hnext, abandoned >>
    /\ UNCHANGED << tvars, lvars, svars, pvars >>

HRedo ==
    LET r == get_redo(hist) IN
    /\ hist' = r.h
    /\ hpage' = IF IsSome(r.ret) THEN Unwrap(r.ret).data ELSE hpage
    /\ hcall' = "get_redo"
    /\ hret' = r.ret
    /\ hrun' = << >>
    /\ scn' = IF scn.phase \in {"undo", "redo"} /\ scn.j < scn.k
              THEN [scn EXCEPT !.phase = "redo", !.j = @ + 1] ELSE NoScenario
    /\ UNCHANGED << hnext, abandoned >>
    /\ UNCHANGED << tvars, lvars, svars, pvars >>

HistoryNext ==
    \/ HTracked
    \/ HSetCurrentBackup
    \/ HUndo
    \/ HRedo

(***************************************************************************)
(* Processor: the commands of the editor (src/src/cli/command.rs) on the   *)
(* live table.  A command is its type, its arguments and `values`: the     *)
(* comma separated list of its last argument already split, or the lines   *)
(* typed at the prompts of an interactive command.                         *)
(***************************************************************************)
Command(command_type, arguments, values) ==
    [command_type |-> command_type, arguments |-> arguments, values |-> values]

TextValues(src) == [i \in 1..Len(src) |-> Text(src[i])]

\* str::parse::<bool>
ParsesBool(s) == s \in {"true", "false"}

\* usize::sub(1) of the value 0 wraps when overflow checks are off; the
\* result stands for usize::MAX, above every count of the model.
USIZE_MAX == 2 ^ 30

\* The line typed at the i-th prompt; nothing typed is the empty line.
Typed(input, i) == IF i <= Len(input) THEN input[i] ELSE ""

Processor_add_row_from_string_array(data, row_index, src) ==
    insert_row(data, row_index, Some(TextValues(src)))

Processor_set_row_from_string_array(data, row_index, input) ==
    set_row(data, row_index, TextValues(input))

Processor_edit_column(data, column, input) == set_column(data, column, Text(input))

Processor_set_limiter(data, column, limiter) ==
    LET index == try_get_column_index(data, column) IN
    IF ~IsSome(index) THEN Err("InvalidColumn", data)
    ELSE set_limiter(data, Unwrap(index), limiter)

RECURSIVE Processor_add_column_array(_, _)
Processor_add_column_array(data, columns) ==
    IF Len(columns) = 0 THEN Ok(data)
    ELSE LET added == insert_column(data, get_column_count(data), Head(columns),
                                    "Text", None)
         IN IF added.kind # "Ok" THEN added
            ELSE Processor_add_column_array(added.vd, Tail(columns))

move_row_from_args(data, args) ==
    IF Len(args) < 2 THEN Err("CliError", data)
    ELSE IF ~ParsesUsize(args[1]) \/ ~ParsesUsize(args[2]) THEN Err("CliError", data)
    ELSE move_row(data, UsizeOf(args[1]), UsizeOf(args[2]))

move_column_from_args(data, args) ==
    IF Len(args) < 2 THEN Err("CliError", data)
    ELSE LET src_number == try_get_column_index(data, args[1])
             target_number == try_get_column_index(data, args[2])
         IN IF ~IsSome(src_number) \/ ~IsSome(target_number)
            THEN Err("InvalidColumn", data)
            ELSE move_column(data, Unwrap(src_number), Unwrap(target_number))

rename_column_from_args(data, args) ==
    IF Len(args) < 2 THEN Err("CliError", data)
    ELSE rename_column(data, args[1], args[2])

edit_column_from_args(data, args) ==
    IF Len(args) < 2 THEN Err("CliError", data)
    ELSE Processor_edit_column(data, args[1], args[2])

\* The coordinate "row,column" comes split in `values`; the new content is
\* the second argument, or the empty string.
edit_cell_from_args(data, args, coord) ==
    IF Len(args) < 1 THEN Err("CliError", data)
    ELSE IF Len(coord) # 2 THEN Err("CliError", data)
    ELSE IF ~ParsesUsize(coord[1]) THEN Err("CliError", data)
    ELSE LET column == try_get_column_index(data, coord[2])
             value == IF Len(args) >= 2 THEN args[2] ELSE ""
         IN IF ~IsSome(column) THEN Err("InvalidColumn", data)
            ELSE set_data_from_string(data, UsizeOf(coord[1]), Unwrap(column), value)

add_row_loop(data, input) ==
    [i \in 1..Len(data.columns) |->
        IF Typed(input, i) # "" THEN Typed(input, i)
        ELSE Value_to_string(get_default_value(data.columns[i]))]

\* get_cell of every column of the row: None when a cell is not there.
edit_row_loop(data, row_number, input) ==
    IF \E i \in 1..Len(data.columns) :
          \/ ~is_valid_cell_coordinate(data, row_number, i - 1)
          \/ ~HasKey(data.rows[row_number + 1], data.columns[i].name)
    THEN None
    ELSE Some([i \in 1..Len(data.columns) |->
                 IF Typed(input, i) # "" THEN Typed(input, i)
                 ELSE Value_to_string(data.rows[row_number + 1][data.columns[i].name])])

add_row_from_args(data, args, values) ==
    IF Len(args) = 0
    THEN Processor_add_row_from_string_array(data, get_row_count(data),
                                             add_row_loop(data, values))
    ELSE IF ~ParsesUsize(args[1]) THEN Err("CliError", data)
    ELSE IF Len(args) = 1
    THEN IF UsizeOf(args[1]) > get_row_count(data) THEN Err("InvalidColumn", data)
         ELSE Processor_add_row_from_string_array(data, UsizeOf(args[1]),
                                                  add_row_loop(data, values))
    ELSE Processor_add_row_from_string_array(data, UsizeOf(args[1]), values)

edit_row_from_args(data, args, values) ==
    IF Len(args) = 0 THEN Err("CliError", data)
    ELSE IF ~ParsesUsize(args[1]) THEN Err("CliError", data)
    ELSE IF Len(args) = 1
    THEN LET typed == edit_row_loop(data, UsizeOf(args[1]), values) IN
         IF ~IsSome(typed) THEN Err("OutOfRangeError", data)
         ELSE Processor_set_row_from_string_array(data, UsizeOf(args[1]), Unwrap(typed))
    ELSE Processor_set_row_from_string_array(data, UsizeOf(args[1]), values)

\* The rows start_index..=end_index one after the other; the first error
\* ends the command and keeps the rows already changed.
RECURSIVE EditRows(_, _, _, _)
EditRows(data, index, end_index, input) ==
    IF index > end_index THEN Ok(data)
    ELSE LET typed == edit_row_loop(data, index, input) IN
         IF ~IsSome(typed) THEN Err("OutOfRangeError", data)
         ELSE LET edited == Processor_set_row_from_string_array(data, index, Unwrap(typed))
              IN IF edited.kind # "Ok" THEN edited
                 ELSE EditRows(edited.vd, index + 1, end_index, input)

edit_rows_from_args(data, args, values) ==
    IF \E i \in 1..Len(args) : i <= 2 /\ ~ParsesUsize(args[i]) THEN Err("CliError", data)
    ELSE LET start_index == IF Len(args) >= 1 THEN UsizeOf(args[1]) ELSE 0
             last_index == IF get_row_count(data) >= 1 THEN get_row_count(data) - 1 ELSE 0
             end_index == IF Len(args) >= 2 THEN UsizeOf(args[2]) ELSE last_index
         IN EditRows(data, start_index, end_index, values)

\* ValueType::from_str: "number" in any case is Number, all the rest Text.
ValueType_from_str(src) == IF src \in {"number", "Number"} THEN "Number" ELSE "Text"

add_column_from_args(data, args) ==
    IF Len(args) = 0 THEN Err("CliError", data)
    ELSE IF Len(args) >= 2 /\ ~ParsesUsize(args[2]) THEN Err("CliError", data)
    ELSE LET column_number == IF Len(args) >= 2 THEN UsizeOf(args[2])
                              ELSE get_column_count(data)
             column_type == IF Len(args) >= 3 THEN ValueType_from_str(args[3]) ELSE "Text"
         IN IF Len(args) >= 4 /\ ~IsSome(Value_from_str(args[4], column_type))
            THEN Err("InvalidValueType", data)
            ELSE insert_column(data, column_number, args[1], column_type, None)

\* remove_row answers None for a row that is not there: the command only
\* says so and succeeds.
remove_row_from_args(data, args, overflow_checks) ==
    IF Len(args) >= 1 /\ ~ParsesUsize(args[1]) THEN Err("CliError", data)
    ELSE LET count == IF Len(args) = 0 THEN get_row_count(data) ELSE UsizeOf(args[1]) IN
         IF count = 0 /\ overflow_checks THEN Panic(data)
         ELSE LET row_count == IF count = 0 THEN USIZE_MAX ELSE count - 1
                  removed == delete_row(data, row_count)
              IN IF removed.kind = "Panic" THEN removed ELSE Ok(removed.vd)

remove_column_from_args(data, args) ==
    IF Len(args) = 0 THEN delete_column(data, get_column_count(data))
    ELSE LET column_count == try_get_column_index(data, args[1]) IN
         IF ~IsSome(column_count) THEN Err("InvalidColumn", data)
         ELSE delete_column(data, Unwrap(column_count))

\* The six fields column,type,default,variant,pattern,force: the arguments
\* split at the commas, or the lines typed at the prompts.
limit_column_from_args(data, args, values) ==
    IF Len(args) # 0 /\ Len(values) < 6 THEN Err("CliError", data)
    ELSE LET force_str == Typed(values, 6) IN
         IF force_str # "" /\ ~ParsesBool(force_str) THEN Err("CliError", data)
         ELSE Processor_set_limiter(data, Typed(values, 1),
                                    ValueLimiter_from_line(SubSeq(values, 2, 5)))

\* The files of the model: one csv file with a header and a record, one
\* schema file with the lines of two columns.
ImportedTable ==
    [columns |-> << Column_new("a", "Text", None), Column_new("b", "Text", None) >>,
     rows |-> << [n \in {"a", "b"} |-> Text("x")] >>]

CsvFiles == {"t.csv"}

SchemaFiles == {"s.csv"}

SchemaLines == << "a", "b" >>

import_file_from_args(data, args) ==
    IF Len(args) = 0 THEN Err("CliError", data)
    ELSE IF Len(args) >= 2 /\ ~ParsesBool(args[2]) THEN Err("CliError", data)
    ELSE IF args[1] \notin CsvFiles THEN Err("IoError", data)
    ELSE Ok(ImportedTable)

RECURSIVE ApplySchema(_, _)
ApplySchema(data, lines) ==
    IF Len(lines) = 0 THEN Ok(data)
    ELSE LET limited == Processor_set_limiter(data, Head(lines), ValueLimiter_from_line(<< >>))
         IN IF limited.kind # "Ok" THEN limited
            ELSE ApplySchema(limited.vd, Tail(lines))

import_schema_from_args(data, args) ==
    IF Len(args) < 2 THEN Err("CliError", data)
    ELSE IF ~ParsesBool(args[2]) THEN Err("CliError", data)
    ELSE IF args[1] \notin SchemaFiles THEN Err("IoError", data)
    ELSE ApplySchema(data, SchemaLines)

\* Processor::execute_command: every other command leaves the table alone.
Processor_execute_command(data, command, overflow_checks) ==
    LET args == command.arguments
        values == command.values
    IN CASE command.command_type = "Import" -> import_file_from_args(data, args)
         [] command.command_type = "Schema" -> import_schema_from_args(data, args)
         [] command.command_type = "Create" -> Processor_add_column_array(data, args)
         [] command.command_type = "AddRow" -> add_row_from_args(data, args, values)
         [] command.command_type = "DeleteRow" ->
                remove_row_from_args(data, args, overflow_checks)
         [] command.command_type = "DeleteColumn" -> remove_column_from_args(data, args)
         [] command.command_type = "AddColumn" -> add_column_from_args(data, args)
         [] command.command_type = "EditCell" -> edit_cell_from_args(data, args, values)
         [] command.command_type = "EditRow" -> edit_row_from_args(data, args, values)
         [] command.command_type = "EditRowMultiple" -> edit_rows_from_args(data, args, values)
         [] command.command_type = "EditColumn" -> edit_column_from_args(data, args)
         [] command.command_type = "RenameColumn" -> rename_column_from_args(data, args)
         [] command.command_type = "MoveRow" -> move_row_from_args(data, args)
         [] command.command_type = "MoveColumn" -> move_column_from_args(data, args)
         [] command.command_type = "Limit" -> limit_column_from_args(data, args, values)
         [] OTHER -> Ok(data)

(***************************************************************************)
(* CommandHistory with two stacks (src/src/cli/command.rs), the history    *)
(* behind pop and pull_redo of CommandLoop.  A VirtualData the history     *)
(* holds is a copy made by Clone: `shared` tells whether the copy shares   *)
(* its columns and rows with the live table.  derive(Clone) copies the     *)
(* vectors, the maps and the values, so a copy never does.                 *)
(***************************************************************************)
\* A copy that shares its columns and rows with the table it was made of.
Clone_shallow(data) == [shared |-> TRUE, data |-> data]

Clone(data) == [shared |-> FALSE, data |-> data]

\* The table a held copy shows while `live` is the live table.
Held(copy, live) == IF copy.shared THEN live ELSE copy.data

StackHistory_new == [memento_history |-> << >>, redo_history |-> << >>]

Stack_take_snapshot(h, data) ==
    LET pushed == Append(h.memento_history, Clone(data)) IN
    [memento_history |-> IF Len(pushed) > HISTORY_CAPACITY
                         THEN VecPop(RotateLeft1(pushed)) ELSE pushed,
     redo_history |-> << >>]

\* pop that takes the oldest snapshot instead of the newest.
Stack_pop_oldest(h) ==
    IF Len(h.memento_history) = 0 THEN [h |-> h, ret |-> None]
    ELSE LET data == h.memento_history[1] IN
         [h |-> [memento_history |-> Tail(h.memento_history),
                 redo_history |-> Append(h.redo_history, data)],
          ret |-> Some(data)]

\* pop and pull_redo return the history after the call and what they hand
\* to the caller.
Stack_pop(h) ==
    IF Len(h.memento_history) = 0 THEN [h |-> h, ret |-> None]
    ELSE LET data == h.memento_history[Len(h.memento_history)] IN
         [h |-> [memento_history |-> VecPop(h.memento_history),
                 redo_history |-> Append(h.redo_history, data)],
          ret |-> Some(data)]

Stack_pull_redo(h) ==
    IF Len(h.redo_history) = 0 THEN [h |-> h, ret |-> None]
    ELSE [h |-> [h EXCEPT !.redo_history = VecPop(@)],
          ret |-> Some(h.redo_history[Len(h.redo_history)])]

(***************************************************************************)
(* CommandLoop (src/src/cli/command.rs, src/src/cli/command_loop.rs): the  *)
(* history and the live table of the processor.                            *)
(***************************************************************************)
CommandLoop_new(data) == [history |-> StackHistory_new, data |-> data]

\* undo: the live table becomes a clone of the table pop moved onto the
\* redo stack.
CommandLoop_undo(loop) ==
    LET popped == Stack_pop(loop.history) IN
    IF ~IsSome(popped.ret) THEN loop
    ELSE LET prev == Clone(Held(Unwrap(popped.ret), loop.data)) IN
         [history |-> IF prev.shared
                      THEN [popped.h EXCEPT !.redo_history[Len(popped.h.redo_history)] = prev]
                      ELSE popped.h,
          data |-> prev.data]

\* redo: the table pulled off the redo stack is moved into the live table.
CommandLoop_redo(loop) ==
    LET pulled == Stack_pull_redo(loop.history) IN
    IF ~IsSome(pulled.ret) THEN loop
    ELSE [history |-> pulled.h, data |-> Held(Unwrap(pulled.ret), loop.data)]

\* The list of un-redoable commands without import: import would snapshot.
Unredoable_without_import ==
    {"Help", "Exit", "Export", "Create", "Write", "None", "Schema",
     "SchemaInit", "SchemaExport", "Version", "PrintCell", "PrintColumn", "Print"}

\* The commands execute_command runs without a snapshot.
Unredoable ==
    {"Help", "Exit", "Import", "Export", "Create", "Write", "None", "Schema",
     "SchemaInit", "SchemaExport", "Version", "PrintCell", "PrintColumn", "Print"}

\* execute_command that takes the snapshot after the processor has run.
CommandLoop_execute_command_snapshot_late(loop, command, overflow_checks) ==
    IF command.command_type = "Undo"
    THEN [loop |-> CommandLoop_undo(loop), kind |-> "Ok"]
    ELSE IF command.command_type = "Redo"
    THEN [loop |-> CommandLoop_redo(loop), kind |-> "Ok"]
    ELSE LET res == Processor_execute_command(loop.data, command, overflow_checks)
             history == IF command.command_type \in {"Help", "Exit", "Import", "Export",
                               "Create", "Write", "None", "Schema", "SchemaInit",
                               "SchemaExport", "Version", "PrintCell", "PrintColumn",
                               "Print"}
                        THEN loop.history
                        ELSE Stack_take_snapshot(loop.history, res.vd)
         IN [loop |-> [history |-> history, data |-> res.vd], kind |-> res.kind]

\* execute_command that keeps the snapshot only when the command succeeded.
CommandLoop_execute_command_snapshot_on_success(loop, command, overflow_checks) ==
    IF command.command_type = "Undo"
    THEN [loop |-> CommandLoop_undo(loop), kind |-> "Ok"]
    ELSE IF command.command_type = "Redo"
    THEN [loop |-> CommandLoop_redo(loop), kind |-> "Ok"]
    ELSE LET res == Processor_execute_command(loop.data, command, overflow_checks)
             history == IF command.command_type \in Unredoable \/ res.kind = "Err"
                        THEN loop.history
                        ELSE Stack_take_snapshot(loop.history, loop.data)
         IN [loop |-> [history |-> history, data |-> res.vd], kind |-> res.kind]

\* execute_command(command, false): the loop after the command and the kind
\* of result of the processor; an error is printed and the loop goes on.
CommandLoop_execute_command(loop, command, overflow_checks) ==
    IF command.command_type = "Undo"
    THEN [loop |-> CommandLoop_undo(loop), kind |-> "Ok"]
    ELSE IF command.command_type = "Redo"
    THEN [loop |-> CommandLoop_redo(loop), kind |-> "Ok"]
    ELSE LET history == IF command.command_type \in Unredoable THEN loop.history
                        ELSE Stack_take_snapshot(loop.history, loop.data)
             res == Processor_execute_command(loop.data, command, overflow_checks)
         IN [loop |-> [history |-> history, data |-> res.vd], kind |-> res.kind]

(***************************************************************************)
(* SpecLoop: one session of CommandLoop, a command at a time.              *)
(*   processor_data   the live table (processor.data)                      *)
(*   loop_history     the history of the loop                              *)
(*   lstatus          "Running", "Exit" after the exit command, "Panic"    *)
(*                    after a panic of the process                         *)
(*   lchecks          whether the build checks integer overflow            *)
(*   lcmd             the type of the last command, ncmds their number     *)
(*   lres             the kind of result the processor gave the last       *)
(*                    command ("Ok", "Err", "Panic")                       *)
(* History variables of the checks (not state of the program):            *)
(*   lrun    the tables as they were before each command of the current    *)
(*           run of successive tracked commands                            *)
(*   lundos  the number of undo commands that followed the run             *)
(*   lredos  the number of redo commands that followed those               *)
(*   ltip    the table as the last tracked command left it                 *)
(***************************************************************************)
MaxCmds == 4

NoArgs == << >>

TrackedInputs ==
    { Command("AddRow", NoArgs, NoArgs),
      Command("AddRow", << "0", "x,x" >>, << "x", "x" >>),
      Command("DeleteRow", NoArgs, NoArgs),
      Command("DeleteRow", << "0" >>, NoArgs),
      Command("AddColumn", << "a" >>, NoArgs),
      Command("AddColumn", << "b", "0", "number" >>, NoArgs),
      Command("DeleteColumn", << "a" >>, NoArgs),
      Command("EditCell", << "0,a", "1" >>, << "0", "a" >>),
      Command("EditRow", << "0", "1,1" >>, << "1", "1" >>),
      Command("EditRowMultiple", NoArgs, << "", "1" >>),
      Command("EditColumn", << "1", "x" >>, NoArgs),
      Command("RenameColumn", << "a", "b" >>, NoArgs),
      Command("RenameColumn", << "3", "a" >>, NoArgs),
      Command("MoveRow", << "0", "1" >>, NoArgs),
      Command("MoveColumn", << "1", "0" >>, NoArgs),
      Command("Limit", << "b,text,,,,," >>, << "b", "text", "", "", "", "" >>) }

UnredoableInputs ==
    { Command("Create", << "a", "b" >>, NoArgs),
      Command("Import", << "t.csv" >>, NoArgs),
      Command("Schema", << "s.csv", "true" >>, NoArgs),
      Command("Export", << "o.csv" >>, NoArgs),
      Command("Write", NoArgs, NoArgs),
      Command("Print", NoArgs, NoArgs),
      Command("PrintCell", << "0,a" >>, NoArgs),
      Command("PrintColumn", << "a" >>, NoArgs),
      Command("SchemaInit", NoArgs, NoArgs),
      Command("SchemaExport", << "o.csv" >>, NoArgs),
      Command("Help", NoArgs, NoArgs),
      Command("Version", NoArgs, NoArgs),
      Command("None", NoArgs, NoArgs),
      Command("Exit", NoArgs, NoArgs) }

LoopInitWith(data, checks) ==
    /\ processor_data = data
    /\ loop_history = StackHistory_new
    /\ lstatus = "Running"
    /\ lchecks = checks
    /\ lcmd = "Start"
    /\ lres = "Ok"
    /\ ncmds = 0
    /\ lrun = << >>
    /\ lundos = 0
    /\ lredos = 0
    /\ ltip = data

\* The tables of the model stay within MaxCols columns and MaxRows rows.
WithinBounds(data) ==
    get_column_count(data) <= MaxCols /\ get_row_count(data) <= MaxRows

\* One command of the session through execute_command.
Feed(command) ==
    LET loop == [history |-> loop_history, data |-> processor_data]
        done == CommandLoop_execute_command(loop, command, lchecks)
    IN /\ WithinBounds(done.loop.data)
       /\ loop_history' = done.loop.history
       /\ processor_data' = done.loop.data
       /\ lstatus' = IF done.kind = "Panic" THEN "Panic"
                     ELSE IF command.command_type = "Exit" THEN "Exit"
                     ELSE "Running"
       /\ lcmd' = command.command_type
       /\ lres' = done.kind
       /\ ncmds' = ncmds + 1
       /\ UNCHANGED << lchecks, tvars, hvars, svars, pvars >>

ResetRun ==
    /\ lrun' = << >>
    /\ lundos' = 0
    /\ lredos' = 0
    /\ ltip' = processor_data'

LoopTracked ==
    \E command \in TrackedInputs :
        /\ lstatus = "Running"
        /\ ncmds < MaxCmds
        /\ Feed(command)
        /\ lrun' = IF lundos = 0 /\ lredos = 0 THEN Append(lrun, processor_data)
                   ELSE << processor_data >>
        /\ lundos' = 0
        /\ lredos' = 0
        /\ ltip' = processor_data'

LoopUnredoable ==
    \E command \in UnredoableInputs :
        /\ lstatus = "Running"
        /\ ncmds < MaxCmds
        /\ Feed(command)
        /\ ResetRun

LoopUndo ==
    /\ lstatus = "Running"
    /\ ncmds < MaxCmds
    /\ Feed(Command("Undo", NoArgs, NoArgs))
    /\ IF Len(lrun) >= 1 /\ lredos = 0
       THEN lundos' = lundos + 1 /\ UNCHANGED << lrun, lredos, ltip >>
       ELSE ResetRun

LoopRedo ==
    /\ lstatus = "Running"
    /\ ncmds < MaxCmds
    /\ Feed(Command("Redo", NoArgs, NoArgs))
    /\ IF lundos >= 1
       THEN lredos' = lredos + 1 /\ UNCHANGED << lrun, lundos, ltip >>
       ELSE ResetRun

LoopNext ==
    \/ LoopTracked
    \/ LoopUnredoable
    \/ LoopUndo
    \/ LoopRedo

(***************************************************************************)
(* Processor with its pages (src/src/processor.rs) and the commands on     *)
(* them (src/src/command.rs).  A processor is its map of pages (page name  *)
(* to table), its cursor (the name of the current page, or None) and       *)
(* no_loop.  `env` is what the process finds around it: `files` (path to   *)
(* content: the text of a csv file, or the lines of a script, each the     *)
(* list of its ';' separated commands), read_strict (CED_READ_STRICT) and  *)
(* overflow_checks (the build).  A result is the kind and error of the     *)
(* call, the processor after it and `prompted`: whether a command went     *)
(* into its interactive variant, which reads standard input.              *)
(***************************************************************************)
Processor_new == [pages |-> << >>, cursor |-> None, no_loop |-> FALSE]

HashMap_insert(map, k, v) ==
    [n \in (DOMAIN map) \cup {k} |-> IF n = k THEN v ELSE map[n]]

HashMap_remove(map, k) ==
    IF (DOMAIN map) \ {k} = {} THEN << >>
    ELSE [n \in (DOMAIN map) \ {k} |-> map[n]]

PageOk(p) == [kind |-> "Ok", err |-> "", p |-> p, prompted |-> FALSE]

PageErr(e, p) == [kind |-> "Err", err |-> e, p |-> p, prompted |-> FALSE]

change_cursor(p, page_name) ==
    IF ~HasKey(p.pages, page_name) THEN [ret |-> FALSE, p |-> p]
    ELSE [ret |-> TRUE, p |-> [p EXCEPT !.cursor = Some(page_name)]]

get_cursor(p) == p.cursor

add_page(p, page, data, has_header, read_strict) ==
    IF HasKey(p.pages, page) THEN PageErr("InvalidPageOperation", p)
    ELSE LET page_data == Processor_add_page(data, has_header, read_strict) IN
         IF page_data.kind # "Ok"
         THEN [PageErr(page_data.err, p) EXCEPT !.kind = page_data.kind]
         ELSE PageOk([p EXCEPT !.pages = HashMap_insert(@, page, page_data.vd),
                               !.cursor = Some(page)])

remove_page(p, page_name) == [p EXCEPT !.pages = HashMap_remove(@, page_name)]

drop_pages(p) == [p EXCEPT !.pages = << >>, !.cursor = None]

\* The page is named after the path.  The source file of the page is not
\* part of the model.
import_from_file(p, path, has_header, env) ==
    IF ~HasKey(env.files, path) THEN PageErr("IoError", p)
    ELSE add_page(p, path, env.files[path], has_header, env.read_strict)

Processor_import_file_from_args(p, args, env) ==
    IF Len(args) = 0 THEN PageErr("CommandError", p)
    ELSE IF Len(args) = 1 THEN import_from_file(p, args[1], TRUE, env)
    ELSE LET removed == remove_page(p, args[1]) IN
         IF ~ParsesBool(args[2]) THEN PageErr("CommandError", removed)
         ELSE import_from_file(removed, args[1], args[2] = "true", env)

check_no_loop(p) == ~p.no_loop

\* The commands that need no page.
Pageless == {"Version", "Help", "Exit", "Undo", "Redo", "History"}

RECURSIVE execute_command(_, _, _)
RECURSIVE RunScript(_, _, _, _, _)
\* The loops of execute_from_file: the commands of line idx from comm on,
\* then the lines after it; the first command that fails ends the script.
RunScript(p, content, idx, comm, env) ==
    IF idx > Len(content) THEN PageOk(p)
    ELSE IF comm > Len(content[idx]) THEN RunScript(p, content, idx + 1, 1, env)
    ELSE LET res == execute_command(p, content[idx][comm], env) IN
         IF res.kind # "Ok" THEN res
         ELSE LET rest == RunScript(res.p, content, idx, comm + 1, env) IN
              [rest EXCEPT !.prompted = @ \/ res.prompted]

execute_from_file(p, args, env) ==
    IF Len(args) = 0 THEN PageErr("CommandError", p)
    ELSE IF ~HasKey(env.files, args[1]) THEN PageErr("IoError", p)
    ELSE RunScript(p, env.files[args[1]], 1, 1, env)

\* Processor::execute_command of src/src/command.rs.  The commands on the
\* current page are those of Processor_execute_command; add-row without
\* values, edit-row without values and edit-row-multiple ask check_no_loop
\* first; limit without arguments prompts for the page that has columns.
execute_command(p, command, env) ==
    IF ~IsSome(get_cursor(p)) THEN PageErr("CommandError", p)
    ELSE LET page_name == Unwrap(get_cursor(p))
             args == command.arguments
             type == command.command_type
             checked == \/ type = "AddRow" /\ Len(args) < 2
                        \/ type = "EditRow" /\ Len(args) = 1
                        \/ type = "EditRowMultiple"
             interactive == checked \/ (type = "Limit" /\ Len(args) = 0)
         IN IF type = "None" THEN PageErr("CommandError", p)
            ELSE IF type = "Import"
            THEN Processor_import_file_from_args(drop_pages(p), args, env)
            ELSE IF type = "Execute" THEN execute_from_file(p, args, env)
            ELSE IF type \in Pageless THEN PageOk(p)
            ELSE IF checked /\ ~check_no_loop(p) THEN PageErr("CommandError", p)
            ELSE IF ~HasKey(p.pages, page_name) THEN PageErr("InvalidPageOperation", p)
            ELSE IF type = "Limit" /\ Len(args) = 0 /\ Len(p.pages[page_name].columns) = 0
            THEN PageOk(p)
            ELSE LET res == Processor_execute_command(p.pages[page_name], command,
                                                      env.overflow_checks)
                 IN [kind |-> res.kind, err |-> res.err,
                     p |-> [p EXCEPT !.pages[page_name] = res.vd],
                     prompted |-> interactive]

(***************************************************************************)
(* The start of the command line program (src/src/cli/command_loop.rs):    *)
(* the empty page, then the script given on the command line.              *)
(***************************************************************************)
EMPTY == "\\EMPTY"

\* The reader makes the table without columns of the empty text.
CommandLoop_add_empty_page(p) ==
    [p EXCEPT !.pages = HashMap_insert(@, EMPTY, VirtualData_new), !.cursor = Some(EMPTY)]

toggle_no_loop(p, tv) == [p EXCEPT !.no_loop = tv]

\* feed_command(command, true): the commands that are snapshot first need
\* the page of the cursor; the error of the processor is returned.  The
\* history of the loop is the matter of SpecLoop.
CommandLoop_feed_command(p, command, env) ==
    IF command.command_type \notin Unredoable \cup {"Undo", "Redo"}
       /\ (~IsSome(get_cursor(p)) \/ ~HasKey(p.pages, Unwrap(get_cursor(p))))
    THEN PageErr("InvalidPageOperation", p)
    ELSE execute_command(p, command, env)

feed_execute(p, script, env) ==
    LET res == CommandLoop_feed_command(toggle_no_loop(p, TRUE),
                                        Command("Execute", << script >>, NoArgs), env)
    IN IF res.kind = "Panic" THEN res ELSE [res EXCEPT !.p = toggle_no_loop(@, FALSE)]

(***************************************************************************)
(* SpecPages: a processor, one call at a time.                             *)
(*   processor   the pages, the cursor and no_loop                         *)
(*   pcall       the last call: its name, the kind of its result ("Ok",    *)
(*               "Err", "Panic"; for change_cursor "Ok" is true and "Err"  *)
(*               false) and whether it went into an interactive variant    *)
(*   lchecks     whether the build checks integer overflow                 *)
(* The files are t.csv (a header and a record), bad.csv (a record with     *)
(* more values than the header has names) and s.ced, the script of the     *)
(* call; no.csv is not there.  CED_READ_STRICT is not set.                 *)
(***************************************************************************)
MaxPageRows == 1

MaxScript == 2

PageFiles ==
    [path \in {"t.csv", "bad.csv"} |->
        IF path = "t.csv" THEN << "a", "\n", "0" >>
        ELSE << "a", "\n", "0", ",", "0" >>]

Paths == {"t.csv", "bad.csv", "no.csv"}

PageNames == {EMPTY, "t.csv", "no.csv"}

Env(script) ==
    [files |-> HashMap_insert(PageFiles, "s.ced", script),
     read_strict |-> FALSE,
     overflow_checks |-> lchecks]

ImportInputs ==
    { Command("Import", << "t.csv" >>, NoArgs),
      Command("Import", << "t.csv", "true" >>, NoArgs),
      Command("Import", << "t.csv", "yes" >>, NoArgs),
      Command("Import", << "bad.csv" >>, NoArgs),
      Command("Import", << "no.csv" >>, NoArgs),
      Command("Import", NoArgs, NoArgs) }

\* The commands of the scripts run from the prompt: a row added with its
\* value, the last row removed, an unknown command.
ScriptCommands ==
    { Command("AddRow", << "0", "x" >>, << "x" >>),
      Command("DeleteRow", NoArgs, NoArgs),
      Command("None", NoArgs, NoArgs) }

\* The commands that ask for their values at a prompt, with what is typed.
InteractiveInputs ==
    { Command("AddRow", NoArgs, << "x" >>),
      Command("AddRow", << "0" >>, << "x" >>),
      Command("EditRow", << "0" >>, << "x" >>),
      Command("EditRowMultiple", NoArgs, << "x" >>),
      Command("Limit", NoArgs, << "a", "text", "x", "x y", "", "" >>) }

\* The commands of the script named on the command line.
FeedCommands ==
    InteractiveInputs \cup
    { Command("Import", << "t.csv" >>, NoArgs),
      Command("AddRow", << "0", "x" >>, << "x" >>) }

PageInputs ==
    ScriptCommands \cup ImportInputs \cup { Command("AddRow", NoArgs, << "x" >>) }

\* The lines of a script: the commands cut after the positions in breaks.
RECURSIVE LinesOf(_, _)
LinesOf(comms, breaks) ==
    LET n == Len(comms)
        ends == breaks \cup {n}
        first == CHOOSE i \in ends : \A j \in ends : i <= j
    IN IF first = n THEN << comms >>
       ELSE << SubSeq(comms, 1, first) >>
                \o LinesOf(SubSeq(comms, first + 1, n), {b - first : b \in breaks \ {first}})

ScriptsOf(commands) ==
    UNION { {LinesOf(comms, breaks) : breaks \in SUBSET (1..(Len(comms) - 1))} :
            comms \in UNION {[1..n -> commands] : n \in 1..MaxScript} }

Scripts == ScriptsOf(ScriptCommands)

FeedScripts == ScriptsOf(FeedCommands)

PagesInitWith(p) ==
    /\ processor = p
    /\ pcall = [op |-> IF p = Processor_new THEN "new" ELSE "add_empty_page",
                kind |-> "Ok", prompted |-> FALSE]

PagesApply(op, res) ==
    /\ pcall.kind # "Panic"
    /\ \A n \in DOMAIN res.p.pages : get_row_count(res.p.pages[n]) <= MaxPageRows
    /\ processor' = IF res.kind = "Panic" THEN processor ELSE res.p
    /\ pcall' = [op |-> op, kind |-> res.kind, prompted |-> res.prompted]
    /\ UNCHANGED << tvars, hvars, lvars, svars >>

PagesAddPage ==
    \E page \in {"t.csv"}, path \in DOMAIN PageFiles :
        PagesApply("add_page", add_page(processor, page, PageFiles[path], TRUE, FALSE))

PagesRemovePage ==
    \E page \in PageNames :
        PagesApply("remove_page", PageOk(remove_page(processor, page)))

PagesDropPages == PagesApply("drop_pages", PageOk(drop_pages(processor)))

PagesChangeCursor ==
    \E page \in PageNames :
        LET changed == change_cursor(processor, page) IN
        PagesApply("change_cursor",
                   IF changed.ret THEN PageOk(changed.p) ELSE PageErr("false", changed.p))

PagesImportFromFile ==
    \E path \in Paths, has_header \in BOOLEAN :
        PagesApply("import_from_file",
                   import_from_file(processor, path, has_header, Env(<< >>)))

PagesCommand ==
    \E command \in PageInputs :
        PagesApply(command.command_type, execute_command(processor, command, Env(<< >>)))

PagesExecute ==
    \E script \in Scripts :
        PagesApply("Execute",
                   execute_command(processor, Command("Execute", << "s.ced" >>, NoArgs),
                                   Env(script)))

\* The script named on the command line runs once, on the empty page.
PagesFeedExecute ==
    \E script \in FeedScripts :
        /\ pcall.op = "add_empty_page"
        /\ PagesApply("feed_execute", feed_execute(processor, "s.ced", Env(script)))

PagesNext ==
    \/ PagesAddPage
    \/ PagesRemovePage
    \/ PagesDropPages
    \/ PagesChangeCursor
    \/ PagesImportFromFile
    \/ PagesCommand
    \/ PagesExecute
    \/ PagesFeedExecute

(***************************************************************************)
(* Helpers of the history claims.                                          *)
(***************************************************************************)
Reverse(s) == [i \in 1..Len(s) |-> s[Len(s) + 1 - i]]

LastN(s, n) == SubSeq(s, Len(s) - n + 1, Len(s))

Min(a, b) == IF a < b THEN a ELSE b

\* The pages handed out by get_undo called again and again until it returns
\* nothing.
RECURSIVE UndoAll(_)
UndoAll(h) ==
    LET r == get_undo(h) IN
    IF IsSome(r.ret) THEN << Unwrap(r.ret).data >> \o UndoAll(r.h) ELSE << >>

(***************************************************************************)
(* C33: the cursor of CommandHistory is at most the length of the stack    *)
(* and the length at most the capacity; after take_snapshot the cursor is  *)
(* the length of the stack, and a take_snapshot that evicts the oldest     *)
(* record leaves the cursor where it was.                                  *)
(***************************************************************************)
C33_CursorWithinStack ==
    /\ 0 <= hist.index
    /\ hist.index <= Len(hist.memento_history)
    /\ Len(hist.memento_history) <= hist.history_capacity
    /\ \A command \in TrackedCommands :
          LET after == take_snapshot(hist, hpage, command)
              evicts == Len(drain_history(hist).memento_history) + 1
                           > hist.history_capacity
          IN /\ after.index = Len(after.memento_history)
             /\ evicts => after.index = hist.index

\* More tracked commands in a row than the capacity holds: the last
\* take_snapshot evicted a record and the cursor is at the full stack.
C33_Witness ==
    /\ hcall = "take_snapshot"
    /\ hist.history_capacity > 0
    /\ Len(hrun) > hist.history_capacity
    /\ hist.index = hist.history_capacity
    /\ Len(hist.memento_history) = hist.history_capacity

(***************************************************************************)
(* C34: a get_redo that returns no record leaves the cursor where it was.  *)
(***************************************************************************)
C34_RedoOfNothingKeepsCursor ==
    LET r == get_redo(hist)
    IN ~IsSome(r.ret) => r.h.index = hist.index

(***************************************************************************)
(* C3: a take_snapshot made while undos are outstanding discards every     *)
(* snapshot from the cursor to the end before it pushes the new one: a     *)
(* redo right after the new edit returns nothing, and a page that the new  *)
(* edit cut off is never the live page again, whatever undos and redos     *)
(* follow.                                                                 *)
(***************************************************************************)
C3_BranchDiscarded ==
    /\ hcall = "take_snapshot" =>
          /\ ~IsSome(get_redo(hist).ret)
          /\ hist.index = Len(hist.memento_history)
    /\ hpage \notin abandoned
    /\ abandoned \cap (RecordData(hist.memento_history)
                         \cup RecordData(hist.newest_snapshot)) = {}

\* E1, E2, E3, the page stored, one undo, E4: the page after E3 is cut off.
C3_Witness ==
    /\ hcall = "take_snapshot"
    /\ 3 \in abandoned
    /\ hpage = 4
    /\ Len(hist.memento_history) = 3

(***************************************************************************)
(* C4: with capacity c, after more than c successive tracked edits exactly *)
(* c snapshots are retrievable by repeated undo, the c most recent ones in *)
(* their order (newest first); the oldest are evicted and the push is never*)
(* refused.  With fewer edits in the run, all of the run is retrievable.   *)
(***************************************************************************)
C4_CapacityKeepsMostRecent ==
    hrun # << >> =>
        LET c == hist.history_capacity
            m == Min(Len(hrun), c)
            got == UndoAll(hist)
        IN /\ Len(got) <= c
           /\ Len(got) >= m
           /\ SubSeq(got, 1, m) = Reverse(LastN(hrun, m))
           /\ Len(hrun) > c => Len(got) = c

\* capacity 2 and three edits: two undos return snapshots, a third nothing.
C4_Witness ==
    /\ hist.history_capacity = 2
    /\ hrun = << 0, 1, 2 >>
    /\ UndoAll(hist) = << 2, 1 >>
    /\ ~IsSome(get_undo(get_undo(get_undo(hist).h).h).ret)

(***************************************************************************)
(* C5: get_undo with the cursor at 0 and get_redo with the cursor at the   *)
(* stack length return nothing and leave the cursor, the snapshot stack    *)
(* and the live page as they were.                                         *)
(***************************************************************************)
C5_NothingToUndoOrRedo ==
    [][(\/ hcall' = "get_undo" /\ hist.index = 0
        \/ hcall' = "get_redo" /\ hist.index = Len(hist.memento_history))
        => /\ hret' = None
           /\ hist' = hist
           /\ hpage' = hpage]_vars

\* a redo at the tip of a history that holds snapshots and a stored page
C5_Witness ==
    /\ hcall = "get_redo"
    /\ hret = None
    /\ hist.index = Len(hist.memento_history)
    /\ hist.index > 0
    /\ IsSome(hist.newest_snapshot)

(***************************************************************************)
(* C6: at the tip with n snapshots, after set_current_backup stored the    *)
(* page P and get_undo was called k times (1 <= k <= n), each of the next  *)
(* k calls of get_redo returns a record and advances the cursor by one:    *)
(* the first k-1 return the snapshot at the incremented cursor, the k-th   *)
(* returns P, and the cursor then equals the stack length again.           *)
(***************************************************************************)
C6_RedoReturnsUndone ==
    scn.phase = "redo" =>
        LET n == Len(hist.memento_history) IN
        /\ IsSome(hret)
        /\ hist.index = n - scn.k + scn.j
        /\ scn.j < scn.k => hret = Some(hist.memento_history[hist.index + 1])
        /\ scn.j = scn.k => /\ Unwrap(hret).data = scn.p
                            /\ hist.index = n
        /\ hpage = Unwrap(hret).data

\* two undos and the two redos after them
C6_Witness ==
    /\ scn.phase = "redo"
    /\ scn.k = 2
    /\ scn.j = 2
    /\ hpage = scn.p
    /\ hpage # 0

(***************************************************************************)
(* C10: after any sequence of insert_column, delete_column and             *)
(* rename_column, interleaved with row insertions and deletions, the set   *)
(* of keys of every row equals exactly the set of current column names,    *)
(* with one value per column.                                              *)
(***************************************************************************)
ColumnNames(t) == {t.columns[i].name : i \in 1..Len(t.columns)}

RowKeysMatchColumns(t) ==
    \A r \in 1..Len(t.rows) : DOMAIN t.rows[r] = ColumnNames(t)

C10_RowKeysEqualColumnNames == RowKeysMatchColumns(vdata)

(***************************************************************************)
(* C11: in every reachable table (after any sequence of insert_column,     *)
(* rename_column, delete_column and move_column) the column names are      *)
(* pairwise distinct and no column name parses as an integer.              *)
(***************************************************************************)
C11_ColumnNamesValid ==
    /\ \A i, j \in 1..Len(vdata.columns) :
           i # j => vdata.columns[i].name # vdata.columns[j].name
    /\ \A i \in 1..Len(vdata.columns) : ~ParsesIsize(vdata.columns[i].name)

(***************************************************************************)
(* C12: in every reachable table, the empty one included, insert_column    *)
(* with the name of an existing column or with a name that parses as an    *)
(* integer returns the error InvalidColumn, whatever the index and the     *)
(* type, and the table it leaves is the table it was given.                *)
(***************************************************************************)
C12_InsertColumnNameGuard ==
    \A column \in 0..MaxCols, name \in Names, column_type \in ValueType :
        (name \in ColumnNames(vdata) \/ ParsesIsize(name)) =>
            LET res == insert_column(vdata, column, name, column_type, None) IN
            /\ res.kind = "Err"
            /\ res.err = "InvalidColumn"
            /\ res.vd = vdata

\* insert_column has just refused a column on the empty table: the name was
\* a numeral, there being no column to clash with.
C12_Witness ==
    /\ lastop = "insert_column"
    /\ lasterr = "InvalidColumn"
    /\ vdata = VirtualData_new

(***************************************************************************)
(* C21: delete_column(index) succeeds for every index below the column     *)
(* count, whether the table has rows or not: the column is removed, its    *)
(* key is removed from every row, every other column and cell stays, in    *)
(* the same order, and with the last column all rows go.                   *)
(***************************************************************************)
C21_DeleteColumnRemovesColumn ==
    \A column \in 0..(Len(vdata.columns) - 1) :
        LET res == delete_column(vdata, column)
            name == vdata.columns[column + 1].name
        IN /\ res.kind = "Ok"
           /\ res.vd.columns = VecRemove(vdata.columns, column)
           /\ IF Len(vdata.columns) = 1 THEN res.vd.rows = << >>
              ELSE /\ Len(res.vd.rows) = Len(vdata.rows)
                   /\ \A r \in 1..Len(vdata.rows) :
                          /\ DOMAIN res.vd.rows[r] = DOMAIN vdata.rows[r] \ {name}
                          /\ \A k \in DOMAIN res.vd.rows[r] :
                                 res.vd.rows[r][k] = vdata.rows[r][k]

(***************************************************************************)
(* C22: for all src and dst below the row count, move_row(src, dst) gives  *)
(* the rows with the row at src taken out and put in at dst: the moved row *)
(* is at dst, the rows between the two have shifted by one towards src,    *)
(* the other rows are where they were, src = dst changes nothing, and the  *)
(* columns are untouched.  The same for move_column on the columns, with   *)
(* the rows and their cells untouched.                                     *)
(***************************************************************************)
TakenOutAndPutIn(s, src, dst) == VecInsert(VecRemove(s, src), dst, s[src + 1])

Rotated(old, new, src, dst) ==
    /\ new = TakenOutAndPutIn(old, src, dst)
    /\ new[dst + 1] = old[src + 1]
    /\ \A k \in 0..(Len(old) - 1) :
           CASE src < dst /\ src <= k /\ k < dst -> new[k + 1] = old[k + 2]
             [] dst < src /\ dst < k /\ k <= src -> new[k + 1] = old[k]
             [] k = dst -> TRUE
             [] OTHER -> new[k + 1] = old[k + 1]
    /\ src = dst => new = old

C22_MoveIsRotation ==
    /\ \A src, dst \in 0..(Len(vdata.rows) - 1) :
           LET res == move_row(vdata, src, dst) IN
           /\ res.kind = "Ok"
           /\ Rotated(vdata.rows, res.vd.rows, src, dst)
           /\ res.vd.columns = vdata.columns
    /\ \A src, dst \in 0..(Len(vdata.columns) - 1) :
           LET res == move_column(vdata, src, dst) IN
           /\ res.kind = "Ok"
           /\ Rotated(vdata.columns, res.vd.columns, src, dst)
           /\ res.vd.rows = vdata.rows

\* move_row has made [C, A, B, D] of four rows.
C22_Witness ==
    /\ lastop = "move_row"
    /\ outcome = "Ok"
    /\ Len(vdata.rows) = 4
    /\ Len(vdata.columns) = 2
    /\ vdata.rows = << LabelledRow(3, 2), LabelledRow(1, 2), LabelledRow(2, 2),
                       LabelledRow(4, 2) >>

(***************************************************************************)
(* C23: a successful insert_column(index, name, type, limiter,             *)
(* placeholder) puts the new column at index, moves the columns that were  *)
(* at index and above one to the right in their order, gives every row a   *)
(* value under the new name, the placeholder if there is one and the       *)
(* default value of the column otherwise, and leaves every other cell.     *)
(***************************************************************************)
C23_InsertColumnBackFills ==
    \A index \in 0..Len(vdata.columns), name \in Names, column_type \in ValueType,
       placeholder \in Placeholders :
        LET res == Page_insert_column_with_type(vdata, index, name, column_type, None,
                                                placeholder)
            new_column == Column_new(name, column_type, None)
        IN res.kind = "Ok" =>
              /\ res.vd.columns = VecInsert(vdata.columns, index, new_column)
              /\ Len(res.vd.rows) = Len(vdata.rows)
              /\ \A r \in 1..Len(vdata.rows) :
                     /\ res.vd.rows[r][name] =
                            IF IsSome(placeholder) THEN Unwrap(placeholder)
                            ELSE get_default_value(new_column)
                     /\ \A k \in DOMAIN vdata.rows[r] :
                            k # name => res.vd.rows[r][k] = vdata.rows[r][k]

(***************************************************************************)
(* C24: a successful rename_column changes the name of the addressed       *)
(* column and nothing else: its position, type and limiter, the order of   *)
(* the columns and of the rows, the value every row holds for the column,  *)
(* now under the new key, and every other cell stay.                       *)
(***************************************************************************)
C24_RenameChangesOnlyTheName ==
    \A token \in Tokens, new_name \in Names :
        LET res == rename_column(vdata, token, new_name)
            i == Unwrap(try_get_column_index(vdata, token)) + 1
            previous == vdata.columns[i].name
        IN res.kind = "Ok" =>
              /\ res.vd.columns = [vdata.columns EXCEPT ![i].name = new_name]
              /\ Len(res.vd.rows) = Len(vdata.rows)
              /\ \A r \in 1..Len(vdata.rows) :
                     /\ previous \in DOMAIN vdata.rows[r] =>
                            /\ new_name \in DOMAIN res.vd.rows[r]
                            /\ res.vd.rows[r][new_name] = vdata.rows[r][previous]
                     /\ \A k \in DOMAIN vdata.rows[r] \ {previous} :
                            /\ k \in DOMAIN res.vd.rows[r]
                            /\ res.vd.rows[r][k] = vdata.rows[r][k]

(***************************************************************************)
(* C27: the default value of every column has the type of the column and   *)
(* qualifies under the limiter of the column.                              *)
(***************************************************************************)
C27_DefaultValueQualifies ==
    \A i \in 1..Len(vdata.columns) :
        LET column == vdata.columns[i]
        IN /\ Value_get_type(get_default_value(column)) = column.column_type
           /\ qualify(column.limiter, get_default_value(column))

(***************************************************************************)
(* C28: a column made by Column::new without a limiter, as every column of *)
(* SpecTable is, has a limiter of the type of the column with no default,  *)
(* no variants and no pattern, under which exactly the values of that type *)
(* qualify.                                                                *)
(***************************************************************************)
C28_NewColumnLimiterHasColumnType ==
    \A i \in 1..Len(vdata.columns) :
        LET column == vdata.columns[i]
            limiter == column.limiter
        IN /\ column = Column_new(column.name, column.column_type, None)
           /\ ValueLimiter_get_type(limiter) = column.column_type
           /\ limiter.default = None /\ limiter.variant = None /\ limiter.pattern = None
           /\ \A value \in Values \cup {Number(1)} :
                  qualify(limiter, value) <=> Value_get_type(value) = column.column_type

(***************************************************************************)
(* C32: a table without columns has no rows, whatever insert_row,          *)
(* delete_row, insert_column and delete_column were called.                *)
(***************************************************************************)
C32_NoColumnsNoRows ==
    Len(vdata.columns) = 0 => Len(vdata.rows) = 0

(***************************************************************************)
(* The claims about cells and limiters, checked under SpecCells.           *)
(***************************************************************************)
\* Every cell of the table qualifies under the limiter of its column.
AllQualify(t) ==
    \A r \in 1..Len(t.rows), i \in 1..Len(t.columns) :
        t.columns[i].name \in DOMAIN t.rows[r] =>
            qualify(t.columns[i].limiter, t.rows[r][t.columns[i].name])

WritesCells == {"set_data", "set_row", "insert_row", "set_column"}

\* The table is the one given and the call returned an error.
Refused(res, t) == res.kind = "Err" /\ res.vd = t

(***************************************************************************)
(* C13: a step of set_data, set_row, insert_row or set_column taken from a *)
(* table in which every cell qualifies under the limiter of its column     *)
(* leaves a table in which every cell qualifies under the limiter of its   *)
(* column.                                                                 *)
(***************************************************************************)
C13_WritesAreQualified ==
    [][(lastop' \in WritesCells /\ AllQualify(vdata)) => AllQualify(vdata')]_vars

(***************************************************************************)
(* C25: set_data_from_string(x, y, text) parses the text as the type of    *)
(* the column and checks the value with the limiter of the column.  When   *)
(* the cell exists, the text parses and the value qualifies, the call      *)
(* succeeds and the addressed cell holds the value while the columns, the  *)
(* rows' order and every other cell stay; in every other case it returns   *)
(* an error and the table is as before.                                    *)
(***************************************************************************)
C25_SetCellParsesThenQualifies ==
    \A x \in RowIndices, y \in ColumnIndices, text \in CellTexts :
        LET res == set_data_from_string(vdata, x, y, text)
            in_range == x < Len(vdata.rows) /\ y < Len(vdata.columns)
            column == vdata.columns[y + 1]
            parsed == Value_from_str(text, column.column_type)
        IN IF in_range /\ IsSome(parsed) /\ qualify(column.limiter, Unwrap(parsed))
           THEN /\ res.kind = "Ok"
                /\ res.vd.columns = vdata.columns
                /\ Len(res.vd.rows) = Len(vdata.rows)
                /\ \A r \in 1..Len(vdata.rows) :
                       /\ DOMAIN res.vd.rows[r] = DOMAIN vdata.rows[r]
                       /\ \A k \in DOMAIN vdata.rows[r] :
                              res.vd.rows[r][k] =
                                 IF r = x + 1 /\ k = column.name THEN Unwrap(parsed)
                                 ELSE vdata.rows[r][k]
           ELSE /\ Refused(res, vdata)
                /\ res.err = IF in_range THEN "InvalidCellData" ELSE "OutOfRangeError"

\* A numeral has just been typed into a cell of a Number column, which holds
\* it as a number, while the other cell of the row still holds a text.
C25_Witness ==
    /\ lastop = "set_data_from_string"
    /\ outcome = "Ok"
    /\ \E r \in 1..Len(vdata.rows), i, j \in 1..Len(vdata.columns) :
           /\ vdata.columns[i].column_type = "Number"
           /\ vdata.rows[r][vdata.columns[i].name] = Number(0)
           /\ vdata.rows[r][vdata.columns[j].name] = Text("")

(***************************************************************************)
(* C26: get_default_value returns the default of the column's limiter if   *)
(* it has one, else the first variant if it has a variant list that is not *)
(* empty, else 0 for a Number column and the empty text for a Text column. *)
(* Checked for the columns of the table and for every such column under    *)
(* every limiter a ValueLimiter value can be.                              *)
(***************************************************************************)
AnyVariants ==
    {None, Some(<< >>)} \cup {Some(<< v >>) : v \in Values}
                       \cup {Some(<< v, w >>) : v, w \in Values}

AnyLimiters ==
    [value_type : ValueType,
     default : {None} \cup {Some(v) : v \in Values},
     variant : AnyVariants,
     pattern : {None} \cup {Some(p) : p \in Patterns}]

ZeroValue(value_type) == IF value_type = "Number" THEN Number(0) ELSE Text("")

DefaultAsDocumented(col) ==
    LET value == get_default_value(col)
        limiter == col.limiter
    IN /\ IsSome(limiter.default) => value = Unwrap(limiter.default)
       /\ ~IsSome(limiter.default) /\ IsSome(limiter.variant)
             /\ Unwrap(limiter.variant) # << >>
          => value = Head(Unwrap(limiter.variant))
       /\ ~IsSome(limiter.default)
             /\ (~IsSome(limiter.variant) \/ Unwrap(limiter.variant) = << >>)
          => value = ZeroValue(col.column_type)

DefaultOfAnyLimiter ==
    \A limiter \in AnyLimiters, column_type \in ValueType :
        DefaultAsDocumented([name |-> "a", column_type |-> column_type,
                             limiter |-> limiter])

C26_DefaultValueOrder ==
    /\ DefaultOfAnyLimiter
    /\ \A i \in 1..Len(vdata.columns) : DefaultAsDocumented(vdata.columns[i])

\* A row has just been inserted without values: the cell of a column whose
\* limiter has variants and another default holds that default, the cell of
\* a column without default and variants the empty text.
C26_Witness ==
    /\ lastop = "insert_row"
    /\ outcome = "Ok"
    /\ \E r \in 1..Len(vdata.rows), i, j \in 1..Len(vdata.columns) :
           LET limiter == vdata.columns[i].limiter
               other == vdata.columns[j].limiter
           IN /\ IsSome(limiter.default) /\ IsSome(limiter.variant)
              /\ Unwrap(limiter.default) # Head(Unwrap(limiter.variant))
              /\ vdata.rows[r][vdata.columns[i].name] = Unwrap(limiter.default)
              /\ ~IsSome(other.default) /\ ~IsSome(other.variant)
              /\ vdata.rows[r][vdata.columns[j].name] = Text("")

(***************************************************************************)
(* C29: set_variant with a default that is not among the variants and      *)
(* set_pattern with a default that the pattern does not match return       *)
(* InvalidLimiter and leave the limiter, its default, variants and pattern *)
(* included, as it was.                                                    *)
(***************************************************************************)
C29_RefusedSetterKeepsLimiter ==
    /\ \A default \in Values, variants \in VariantLists :
           (\A i \in 1..Len(variants) : variants[i] # default) =>
               LET res == ValueLimiter_set_variant(staged, default, variants)
               IN res.err = "InvalidLimiter" /\ res.limiter = staged
    /\ \A default \in Values, pattern \in Patterns :
           ~is_match(pattern, Value_to_string(default)) =>
               LET res == ValueLimiter_set_pattern(staged, default, pattern)
               IN res.err = "InvalidLimiter" /\ res.limiter = staged

\* A limiter with a default, variants and a pattern has just refused a
\* call of set_variant.
C29_Witness ==
    /\ lastop = "set_variant"
    /\ lasterr = "InvalidLimiter"
    /\ IsSome(staged.default) /\ IsSome(staged.variant) /\ IsSome(staged.pattern)

(***************************************************************************)
(* C30: the text to_string makes of the table, imported with a header,     *)
(* gives a table with the same column names in the same order and the same *)
(* rows with the same values in the same order; and the file written by    *)
(* overwrite_to_file can be imported.                                      *)
(***************************************************************************)
SameNamesAndValues(t, u) ==
    /\ Len(t.columns) = Len(u.columns)
    /\ \A i \in 1..Len(t.columns) : t.columns[i].name = u.columns[i].name
    /\ Len(t.rows) = Len(u.rows)
    /\ \A r \in 1..Len(t.rows) : t.rows[r] = u.rows[r]

C30_RoundTrip ==
    /\ LET again == Processor_import_from_file(Display(vdata), TRUE, FALSE)
       IN again.kind = "Ok" /\ SameNamesAndValues(again.vd, vdata)
    /\ Processor_import_from_file(file, TRUE, FALSE).kind = "Ok"

(***************************************************************************)
(* C14: for the limiter of every column and every value, qualify is false  *)
(* when the type of the value is not the type of the limiter; otherwise    *)
(* true when the limiter has neither variants nor pattern; otherwise, with *)
(* variants, it is membership of the value in the variants, whatever the   *)
(* pattern; otherwise it is the match of the pattern on the value printed. *)
(***************************************************************************)
C14_QualifyDecides ==
    \A i \in 1..Len(vdata.columns), value \in Values :
        LET limiter == vdata.columns[i].limiter
            typed == limiter.value_type = value.tag
            answer == qualify(limiter, value)
        IN /\ ~typed => answer = FALSE
           /\ (typed /\ limiter.variant = None /\ limiter.pattern = None) => answer = TRUE
           /\ (typed /\ limiter.variant # None) =>
                  answer = (\E k \in 1..Len(limiter.variant[1]) : limiter.variant[1][k] = value)
           /\ (typed /\ limiter.variant = None /\ limiter.pattern # None) =>
                  answer = is_match(limiter.pattern[1], Value_to_string(value))

\* set_data has refused a value for a row whose columns both have variants
\* and a pattern.
C14_Witness ==
    /\ lastop = "set_data"
    /\ lasterr = "InvalidCellData"
    /\ Len(vdata.rows) = 1
    /\ \A i \in 1..Len(vdata.columns) :
           /\ vdata.columns[i].limiter.variant # None
           /\ vdata.columns[i].limiter.pattern # None

C16_InsertRowChecksValues ==
    \A row \in 0..Len(vdata.rows) :
        /\ \A values \in RowValues :
               (\/ Len(values) # Len(vdata.columns)
                \/ \E i \in 1..Len(vdata.columns) :
                       i <= Len(values) /\ ~qualify(vdata.columns[i].limiter, values[i])) =>
                   Refused(insert_row(vdata, row, Some(values)), vdata)
        /\ LET res == insert_row(vdata, row, None) IN
           /\ res.kind = "Ok"
           /\ Len(res.vd.rows) = Len(vdata.rows) + 1
           /\ \A i \in 1..Len(vdata.columns) :
                  res.vd.rows[row + 1][vdata.columns[i].name] =
                      get_default_value(vdata.columns[i])

(***************************************************************************)
(* C17: set_limiter(column, limiter, panic) on a column of the table: with *)
(* panic, when a cell of the column does not qualify under the new limiter *)
(* the call returns an error and the table (limiter and cells) is the one  *)
(* it was given; without panic the limiter is installed, the cells of the  *)
(* column that do not qualify under it become the default value of the     *)
(* column and the cells that qualify keep their value.                     *)
(***************************************************************************)
C17_SetLimiterPanicOrCoerce ==
    \A column \in 0..(Len(vdata.columns) - 1), limiter \in Limiters, panic \in BOOLEAN :
        LET name == vdata.columns[column + 1].name
            res == Page_set_limiter(vdata, column, limiter, panic)
        IN /\ (panic /\ \E r \in 1..Len(vdata.rows) : ~qualify(limiter, vdata.rows[r][name]))
                  => Refused(res, vdata)
           /\ ~panic =>
                  /\ res.kind = "Ok"
                  /\ res.vd.columns[column + 1].limiter = limiter
                  /\ \A r \in 1..Len(vdata.rows) :
                         res.vd.rows[r][name] =
                             IF qualify(limiter, vdata.rows[r][name])
                             THEN vdata.rows[r][name]
                             ELSE get_default_value(res.vd.columns[column + 1])

(***************************************************************************)
(* C18: delete_row(index) removes the row when index is below the row      *)
(* count; for every index at or above the row count (the row count itself  *)
(* and any index on an empty table included) it returns None without a     *)
(* panic and the table is the one it was given.                            *)
(***************************************************************************)
C18_DeleteRowNeverPanics ==
    \A row \in 0..(Len(vdata.rows) + 1) :
        LET res == delete_row(vdata, row) IN
        IF row < Len(vdata.rows)
        THEN /\ res.kind = "Ok"
             /\ res.vd = [vdata EXCEPT !.rows = VecRemove(vdata.rows, row)]
        ELSE /\ Refused(res, vdata)
             /\ res.err = "None"

(***************************************************************************)
(* C19: set_data, set_row, insert_row, insert_column, delete_column,       *)
(* rename_column, set_column, set_limiter, move_row and move_column, given *)
(* a row or column index or a column token beyond the bounds of the table, *)
(* return an error, do not panic, and leave the columns and rows as given. *)
(***************************************************************************)
C19_OutOfBoundsIsAnError ==
    LET nr == Len(vdata.rows)
        nc == Len(vdata.columns)
        BeyondRows == nr..(nr + 1)
        BeyondCols == nc..(nc + 1)
        BeyondTokens == {t \in Tokens : \/ ParsesUsize(t) /\ UsizeOf(t) >= nc
                                        \/ ~ParsesUsize(t) /\ t \notin ColumnNames(vdata)}
        Fresh == {n \in Names : n \notin ColumnNames(vdata) /\ ~ParsesIsize(n)}
    IN /\ \A x \in 0..(nr + 1), y \in 0..(nc + 1), value \in Values :
              (x >= nr \/ y >= nc) => Refused(set_data(vdata, x, y, value), vdata)
       /\ \A row \in BeyondRows, values \in RowValues :
              Refused(set_row(vdata, row, values), vdata)
       /\ \A row \in (nr + 1)..(nr + 2) : Refused(insert_row(vdata, row, None), vdata)
       /\ \A column \in (nc + 1)..(nc + 2), name \in Fresh :
              Refused(insert_column(vdata, column, name, "Text", None), vdata)
       /\ \A column \in BeyondCols : Refused(delete_column(vdata, column), vdata)
       /\ \A token \in BeyondTokens :
              /\ Refused(rename_column(vdata, token, token), vdata)
              /\ \A value \in Values : Refused(set_column(vdata, token, value), vdata)
       /\ \A column \in BeyondCols, limiter \in Limiters :
              Refused(set_limiter(vdata, column, limiter), vdata)
       /\ \A src \in 0..(nr + 1), target \in 0..(nr + 1) :
              (src >= nr \/ target >= nr) => Refused(move_row(vdata, src, target), vdata)
       /\ \A src \in 0..(nc + 1), target \in 0..(nc + 1) :
              (src >= nc \/ target >= nc) => Refused(move_column(vdata, src, target), vdata)

(***************************************************************************)
(* C20: try_get_column_index(token) is the index of the column named       *)
(* token; for a token that parses as a non-negative integer it is that     *)
(* integer if it is below the column count and None otherwise; every index *)
(* it returns is the index of a column of the table.                       *)
(***************************************************************************)
C20_ColumnIndexIsBoundsChecked ==
    \A token \in Tokens :
        LET index == try_get_column_index(vdata, token) IN
        /\ ~ParsesUsize(token) =>
               /\ token \in ColumnNames(vdata) =>
                      IsSome(index) /\ vdata.columns[Unwrap(index) + 1].name = token
               /\ token \notin ColumnNames(vdata) => index = None
        /\ ParsesUsize(token) =>
               index = IF UsizeOf(token) < Len(vdata.columns)
                       THEN Some(UsizeOf(token)) ELSE None
        /\ IsSome(index) => Unwrap(index) < Len(vdata.columns)

(***************************************************************************)
(* The claims about CommandLoop, checked under SpecLoop.                   *)
(***************************************************************************)
\* The command types execute_command snapshots for: all but undo, redo and
\* the un-redoable ones.
Tracked ==
    {"AddRow", "AddColumn", "DeleteRow", "DeleteColumn", "EditCell", "EditColumn",
     "RenameColumn", "EditRow", "EditRowMultiple", "MoveRow", "MoveColumn", "Limit"}

\* The commands of the claims that are not tracked: print, export, import,
\* schema, version and help, and with them create, exit and the unknown
\* command.
Untracked ==
    {"Print", "PrintCell", "PrintColumn", "Export", "Write", "Import", "Schema",
     "SchemaInit", "SchemaExport", "Version", "Help", "Create", "None", "Exit"}

Last(s) == s[Len(s)]

\* The tables the history holds, as they show now.
SnapshotTables ==
    { Held(loop_history.memento_history[i], processor_data) :
        i \in 1..Len(loop_history.memento_history) }
    \cup
    { Held(loop_history.redo_history[i], processor_data) :
        i \in 1..Len(loop_history.redo_history) }

\* C1: in the command loop, after a run of tracked commands followed by n
\* undo commands (n at least 1, at most the length of the run and at most
\* the capacity), the live table equals the table as it was before the n-th
\* last tracked command; with n = 1 that is the table just before the
\* tracked command the undo follows, with n the length of the run the table
\* before the first of them.
C1_UndoRestoresPageBefore ==
    (/\ lundos >= 1
     /\ lredos = 0
     /\ lundos <= Len(lrun)
     /\ lundos <= HISTORY_CAPACITY)
    => processor_data = lrun[Len(lrun) - lundos + 1]

\* Two tracked commands that each changed the table, then two undos: the
\* table is back to what it was before the first.
C1_Witness ==
    /\ lcmd = "Undo"
    /\ lundos = 2
    /\ lredos = 0
    /\ Len(lrun) = 2
    /\ lrun[1] # lrun[2]
    /\ ltip # lrun[2]
    /\ processor_data = lrun[1]
    /\ processor_data # ltip

C7_RedoReappliesUndone ==
    (/\ lcmd = "Redo"
     /\ lredos = 1
     /\ lundos = 1
     /\ Len(lrun) >= 1
     /\ ltip # Last(lrun))
    => processor_data = ltip

\* C8 as stated: every command that changes the live table has pushed a
\* snapshot of the table as it was before (set aside undo and redo, which
\* restore from the history, and import, which replaces the table).
C8_EveryChangeIsSnapshotted ==
    [][(/\ processor_data' # processor_data
        /\ lcmd' \notin {"Undo", "Redo", "Import"})
       => (/\ Len(loop_history'.memento_history) >= 1
           /\ Held(Last(loop_history'.memento_history), processor_data')
                 = processor_data)]_vars

\* C8 amended: every command of a tracked type pushes a snapshot of the live
\* table as it was before the command and clears the redo stack, whether or
\* not the command then changes the table; the only other commands that
\* change the table are create, import and schema, which take no snapshot,
\* and undo and redo.
C8_TrackedCommandsSnapshotFirst ==
    [][/\ (ncmds' = ncmds + 1 /\ lcmd' \in Tracked)
          => (/\ Len(loop_history'.memento_history) >= 1
              /\ Held(Last(loop_history'.memento_history), processor_data')
                    = processor_data
              /\ Len(loop_history'.memento_history)
                    = Min(Len(loop_history.memento_history) + 1, HISTORY_CAPACITY)
              /\ loop_history'.redo_history = << >>)
       /\ processor_data' # processor_data
          => lcmd' \in Tracked \cup {"Create", "Import", "Schema", "Undo", "Redo"}]_vars

\* A tracked command changed the table and the newest snapshot is the table
\* as it was before.
C8_Witness ==
    /\ lcmd = "RenameColumn"
    /\ lstatus = "Running"
    /\ Len(lrun) >= 1
    /\ Last(lrun) # processor_data
    /\ Len(loop_history.memento_history) >= 1
    /\ Held(Last(loop_history.memento_history), processor_data) = Last(lrun)

\* C9: the commands that are not tracked never take a snapshot: a print,
\* export, write, import, create, schema, version, help, exit or unknown
\* command leaves both stacks of the history as they are; undo pushes
\* nothing onto the snapshots and drops nothing from the redo stack, redo
\* leaves the snapshots alone and takes at most one table off the redo
\* stack.
C9_UntrackedNeverSnapshot ==
    [][ncmds' = ncmds + 1 =>
        /\ lcmd' \in Untracked => loop_history' = loop_history
        /\ lcmd' = "Undo" =>
              /\ loop_history'.memento_history
                    \in {loop_history.memento_history, VecPop(loop_history.memento_history)}
              /\ Len(loop_history'.redo_history) >= Len(loop_history.redo_history)
              /\ SubSeq(loop_history'.redo_history, 1, Len(loop_history.redo_history))
                    = loop_history.redo_history
        /\ lcmd' = "Redo" =>
              /\ loop_history'.memento_history = loop_history.memento_history
              /\ loop_history'.redo_history
                    \in {loop_history.redo_history, VecPop(loop_history.redo_history)}]_vars

\* An import replaced the table while the history held a snapshot and an
\* undone table: both are still there.
C9_Witness ==
    /\ lcmd = "Import"
    /\ processor_data = ImportedTable
    /\ Len(loop_history.memento_history) = 1
    /\ Len(loop_history.redo_history) = 1
    /\ Held(loop_history.memento_history[1], processor_data) # processor_data

PageOfFile(path) == Processor_add_page(PageFiles[path], TRUE, FALSE).vd

(***************************************************************************)
(* C31: import_from_file with a path whose page name already exists drops  *)
(* the existing page and installs the content of the file under that       *)
(* name, with the cursor on it.                                            *)
(***************************************************************************)
C31_ImportReplacesPage ==
    HasKey(processor.pages, "t.csv") =>
        LET res == import_from_file(processor, "t.csv", TRUE, Env(<< >>)) IN
        /\ res.kind = "Ok"
        /\ res.p.pages = HashMap_insert(processor.pages, "t.csv", PageOfFile("t.csv"))
        /\ res.p.cursor = Some("t.csv")

(***************************************************************************)
(* C36: after any sequence of add_page, remove_page, drop_pages,           *)
(* change_cursor and import_from_file the cursor is empty or names a page  *)
(* that exists; change_cursor to a page that does not exist returns false  *)
(* and leaves the cursor as it was.                                        *)
(***************************************************************************)
C36_CursorNamesAPage ==
    /\ IsSome(processor.cursor) => HasKey(processor.pages, Unwrap(processor.cursor))
    /\ \A page \in PageNames :
           ~HasKey(processor.pages, page) =>
               LET changed == change_cursor(processor, page) IN
               ~changed.ret /\ changed.p = processor

(***************************************************************************)
(* C37: an import command that fails (the file cannot be read or parsed,   *)
(* the header flag is not a boolean, the file name is missing) leaves the  *)
(* pages and the cursor exactly as they were before the command.           *)
(***************************************************************************)
C37_FailedImportKeepsPages ==
    [][(pcall'.op = "Import" /\ pcall'.kind = "Err") =>
          /\ processor'.pages = processor.pages
          /\ processor'.cursor = processor.cursor]_vars

\* The commands of a script in the order of the file.
RECURSIVE Flatten(_)
Flatten(content) ==
    IF Len(content) = 0 THEN << >> ELSE Head(content) \o Flatten(Tail(content))

(***************************************************************************)
(* C38: execute_from_file runs the commands of the script in file order    *)
(* (line by line, within a line from left to right); at the first command  *)
(* that fails it returns the error of that command and runs no later       *)
(* command, and what the commands before it did stays: the result is that  *)
(* of the commands run one after the other up to the first that does not   *)
(* succeed, and a script without such a command succeeds.                  *)
(***************************************************************************)
C38_ScriptStopsAtFirstFailure ==
    \A script \in Scripts :
        LET env == Env(script)
            comms == Flatten(script)
            res == execute_from_file(processor, << "s.ced" >>, env)
            Run[k \in 0..Len(comms)] ==
                IF k = 0 THEN PageOk(processor)
                ELSE execute_command(Run[k - 1].p, comms[k], env)
            failed == {k \in 1..Len(comms) :
                          /\ Run[k].kind # "Ok"
                          /\ \A j \in 1..(k - 1) : Run[j].kind = "Ok"}
        IN /\ res.kind \in {"Ok", "Err"}
           /\ IF failed = {}
              THEN res.kind = "Ok" /\ res.p = Run[Len(comms)].p
              ELSE \A k \in failed :
                      /\ res.kind = "Err"
                      /\ res.err = Run[k].err
                      /\ res.p = Run[k].p

(***************************************************************************)
(* C39: while no_loop is set, add-row with fewer than two arguments,       *)
(* edit-row with one argument, edit-row-multiple and limit without         *)
(* arguments fail with a command error, without going to their prompt and  *)
(* without a change of the processor; no_loop is false when feed_execute   *)
(* has returned, whether the script succeeded or failed.                   *)
(***************************************************************************)
C39_NoLoopRefusesPrompts ==
    /\ ~processor.no_loop
    /\ \A command \in InteractiveInputs :
           LET p == toggle_no_loop(processor, TRUE)
               res == execute_command(p, command, Env(<< >>))
           IN /\ res.kind = "Err"
              /\ res.err = "CommandError"
              /\ ~res.prompted
              /\ res.p = p

(***************************************************************************)
(* C40: the delete-row command computes the index of its row without       *)
(* unsigned underflow: without an argument it removes the last row, and    *)
(* on a page without rows, or with the argument 0, it says that there is   *)
(* no such row, removes nothing and does not abort.                        *)
(***************************************************************************)
C40_DeleteRowWithoutUnderflow ==
    \A args \in {NoArgs, << "0" >>} :
        LET res == remove_row_from_args(processor_data, args, lchecks) IN
        /\ res.kind = "Ok"
        /\ res.vd = IF Len(args) = 0 /\ Len(processor_data.rows) > 0
                    THEN [processor_data EXCEPT !.rows = VecPop(@)]
                    ELSE processor_data

(***************************************************************************)
(* The specifications.  Each drives its own component; the variables of    *)
(* the other components stay as constructed.                               *)
(***************************************************************************)
TableInit ==
    /\ TableInitWith(VirtualData_new)
    /\ HistoryInitWith(HISTORY_CAPACITY)
    /\ LoopInitWith(VirtualData_new, FALSE)
    /\ LimiterInitWith(ValueLimiter_default)
    /\ FileInitWith(<< >>)
    /\ PagesInitWith(Processor_new)

SpecTable == TableInit /\ [][TableNext]_vars

CellsInit ==
    /\ TableInitWith(TwoColumns)
    /\ HistoryInitWith(HISTORY_CAPACITY)
    /\ LoopInitWith(VirtualData_new, FALSE)
    /\ LimiterInitWith(ValueLimiter_default)
    /\ FileInitWith(<< >>)
    /\ PagesInitWith(Processor_new)

SpecCells == CellsInit /\ [][CellsNext]_vars

MoveInit ==
    /\ \E nc \in 1..MaxMove, nr \in 0..MaxMove : TableInitWith(MoveTable(nc, nr))
    /\ HistoryInitWith(HISTORY_CAPACITY)
    /\ LoopInitWith(VirtualData_new, FALSE)
    /\ LimiterInitWith(ValueLimiter_default)
    /\ FileInitWith(<< >>)
    /\ PagesInitWith(Processor_new)

SpecMove == MoveInit /\ [][MoveNext]_vars

LimiterInit ==
    /\ LimiterInitWith(ValueLimiter_default)
    /\ FileInitWith(<< >>)
    /\ PagesInitWith(Processor_new)
    /\ TableInitWith(VirtualData_new)
    /\ HistoryInitWith(HISTORY_CAPACITY)
    /\ LoopInitWith(VirtualData_new, FALSE)

SpecLimiter == LimiterInit /\ [][LimiterNext]_vars

\* The session starts on the page imported from a file with a header.
FileInit ==
    /\ \E content \in Headers :
           /\ FileInitWith(content)
           /\ TableInitWith(Processor_import_from_file(content, TRUE, FALSE).vd)
    /\ LimiterInitWith(ValueLimiter_default)
    /\ HistoryInitWith(HISTORY_CAPACITY)
    /\ LoopInitWith(VirtualData_new, FALSE)
    /\ PagesInitWith(Processor_new)

SpecFile == FileInit /\ [][FileNext]_vars

HistoryInit ==
    /\ \E capacity \in 0..MaxCapacity : HistoryInitWith(capacity)
    /\ TableInitWith(VirtualData_new)
    /\ LoopInitWith(VirtualData_new, FALSE)
    /\ LimiterInitWith(ValueLimiter_default)
    /\ FileInitWith(<< >>)
    /\ PagesInitWith(Processor_new)

\* CommandHistory::new reads the capacity from the environment.
SpecHistory == HistoryInit /\ [][HistoryNext]_vars

\* The session starts on an empty table or on an imported file.
LoopInit ==
    /\ \E data \in {VirtualData_new, ImportedTable}, checks \in BOOLEAN :
           LoopInitWith(data, checks)
    /\ TableInitWith(VirtualData_new)
    /\ HistoryInitWith(HISTORY_CAPACITY)
    /\ LimiterInitWith(ValueLimiter_default)
    /\ FileInitWith(<< >>)
    /\ PagesInitWith(Processor_new)

SpecLoop == LoopInit /\ [][LoopNext]_vars

\* A processor just made, or the command line program after its start.
PagesInit ==
    /\ \E p \in {Processor_new, CommandLoop_add_empty_page(Processor_new)},
          checks \in BOOLEAN :
           /\ PagesInitWith(p)
           /\ LoopInitWith(VirtualData_new, checks)
    /\ TableInitWith(VirtualData_new)
    /\ HistoryInitWith(HISTORY_CAPACITY)
    /\ LimiterInitWith(ValueLimiter_default)
    /\ FileInitWith(<< >>)

SpecPages == PagesInit /\ [][PagesNext]_vars
====
